---- MODULE Spec2Model ----
(***************************************************************************)
(* Model of train_mitoses.py: the two-phase training loop of train(), its  *)
(* checkpoint files and the resume path, with the process able to stop at  *)
(* any statement and to be started again on the same experiment directory. *)
(***************************************************************************)
EXTENDS Integers, Sequences, FiniteSets, TLC

\* ------------------------------------------------------------------ bounds
MaxRuns == 2          \* processes started on one experiment directory

MaxLayers == 3        \* layers of the pretrained model
MaxTrainSteps == 2    \* train-op runs on the constructed graph
MaxCalls == 4         \* runs of the ops of one resettable metric
MaxBatchLen == 2      \* values in one batch given to a metric
MaxSegments == 3      \* segments of a file name
MaxSwitches == 2      \* times the trainable-layer switch is applied

\* The arguments tried for train().
ClfEpochsTried == 0..1
FinetuneEpochsTried == 0..1
BatchSizesTried == 1..2
LogIntervals == {0, 2}
\* The sizes tried for the two sets of image files.
TrainSizes == 0..2
ValSizes == 0..1
\* The values a minibatch loss takes.
LossValues == {1}
\* --augment (the default), the setting under which training samples and
\* validation samples can be treated differently.
AugmentTried == {TRUE}

\* ------------------------------------------------------------- train ops
Clf == "clf_train_op"
Ft == "finetune_train_op"
TrainOps == {Clf, Ft}

\* The list the outer loop of train() walks (line 460).
PhaseList(ce, fe) == << [op |-> Clf, epochs |-> ce], [op |-> Ft, epochs |-> fe] >>

\* Mutant: the range stops at the configured count, range(global_epoch, epochs).
EpochRange_UpToCount(ge, ep) == [lo |-> ge, hi |-> ep]
\* range(global_epoch, global_epoch+epochs), evaluated once on loop entry.
EpochRange(ge, ep) == [lo |-> ge, hi |-> ge + ep]

\* ---------------------------------------------------------------- datasets
\* preprocess(filename, patch_size, augmentation, model_name), lines 63-85:
\* augment() is applied to the image if and only if the argument is true.
Preprocess(aug) == [augmented |-> aug]
\* The augmentation argument of the map function of train_dataset (line 248).
TrainMapAugmentation(a) == a
\* Mutant: val_dataset is mapped like train_dataset.
ValMapAugmentation_AsTrain(a) == a
\* The augmentation argument of the map function of val_dataset (line 252).
ValMapAugmentation(a) == FALSE

\* ---------------------------------------------------------------- sess.run
\* Mutant: the logging branch fetches the values it logs without the train op.
TrainFetches_LogWithoutTrainOp(op, log) ==
  IF log THEN {"metric_update_ops", "loss", "mean_loss", "acc", "minibatch_summaries"}
         ELSE {op, "metric_update_ops"}
\* The fetches of the sess.run of a training step (lines 468-470, 475).
TrainFetches(op, log) ==
  IF log THEN {op, "metric_update_ops", "loss", "mean_loss", "acc", "minibatch_summaries"}
         ELSE {op, "metric_update_ops"}
\* Mutant: the validation step fetches the fine-tune train op too.
ValFetches_WithTrainOp(log) ==
  IF log THEN {Ft, "metric_update_ops", "loss", "mean_loss", "acc"}
         ELSE {Ft, "metric_update_ops"}
\* The fetches of the sess.run of a validation step (lines 493-494, 497).
ValFetches(log) ==
  IF log THEN {"metric_update_ops", "loss", "mean_loss", "acc"}
         ELSE {"metric_update_ops"}
\* The fetches of the end-of-pass read (lines 480, 502).
EpochFetches == {"mean_loss", "acc", "epoch_summaries"}
\* Running a train op applies its optimizer once (lines 364-366, 378-380);
\* no other op of the graph assigns to a model or optimizer variable.
ApplyTrainOps(w, f) == [t \in TrainOps |-> IF t \in f THEN w[t] + 1 ELSE w[t]]
\* feed_dict={K.learning_phase(): ...}; NoFeed when the run call feeds nothing.
NoFeed == -1

\* ----------------------------------------------------------------- values
ZeroW == [t \in TrainOps |-> 0]
ZeroCount == [t \in TrainOps |-> 0]

\* Local variables of the four tf.metrics (lines 384-391).
ZeroMetrics ==
  [loss_total |-> 0, loss_count |-> 0, acc_total |-> 0, acc_count |-> 0,
   ppv_tp |-> 0, ppv_fp |-> 0, sens_tp |-> 0, sens_fn |-> 0]

\* What one minibatch contributes: its loss and the confusion counts of its
\* predictions.  The network's outputs are not determined by this program.
Kinds == {"tp", "fp", "fn", "tn"}
BatchResults(n) ==
  { [loss |-> l,
     tp |-> IF k = "tp" THEN n ELSE 0, fp |-> IF k = "fp" THEN n ELSE 0,
     fn |-> IF k = "fn" THEN n ELSE 0, tn |-> IF k = "tn" THEN n ELSE 0] :
    l \in LossValues, k \in Kinds }

\* metric_update_ops (line 395) on one minibatch of n samples.
MetricUpdate(m, b, n) ==
  [loss_total |-> m.loss_total + b.loss, loss_count |-> m.loss_count + 1,
   acc_total |-> m.acc_total + b.tp + b.tn, acc_count |-> m.acc_count + n,
   ppv_tp |-> m.ppv_tp + b.tp, ppv_fp |-> m.ppv_fp + b.fp,
   sens_tp |-> m.sens_tp + b.tp, sens_fn |-> m.sens_fn + b.fn]

\* A metric value is kept as the pair <<numerator, denominator>>.
MeanLoss(m) == << m.loss_total, m.loss_count >>
Acc(m) == << m.acc_total, m.acc_count >>
Unset == << -1, 0 >>

\* ------------------------------------------------------------ float values
\* A float is kept as the pair <<numerator, denominator>>; 0/0 is not a number.
NaN == << 0, 0 >>
RECURSIVE Gcd(_, _)
Gcd(a, b) == IF b = 0 THEN a ELSE Gcd(b, a % b)
Reduced(v) == IF v[2] = 0 THEN (IF v[1] = 0 THEN NaN ELSE << 1, 0 >>)
              ELSE << v[1] \div Gcd(v[1], v[2]), v[2] \div Gcd(v[1], v[2]) >>
FMul(a, b) == Reduced(<< a[1] * b[1], a[2] * b[2] >>)
FAdd(a, b) == Reduced(<< a[1] * b[2] + b[1] * a[2], a[2] * b[2] >>)
\* Float division: x/0 is inf, 0/0 is nan, neither raises.
FDiv(a, b) == Reduced(<< a[1] * b[2], a[2] * b[1] >>)
\* tf.metrics divides with a guard: 0 when the denominator is not positive.
SafeDiv(n, d) == IF d > 0 THEN Reduced(<< n, d >>) ELSE << 0, 1 >>

\* ppv and sens, lines 388-391; f1, line 392.
Ppv(m) == SafeDiv(m.ppv_tp, m.ppv_tp + m.ppv_fp)
Sens(m) == SafeDiv(m.sens_tp, m.sens_tp + m.sens_fn)
\* Mutant: f1 is divided with the guard of the tf.metrics.
F1_Guarded(m) ==
  IF FAdd(Ppv(m), Sens(m))[1] = 0 THEN << 0, 1 >>
  ELSE FDiv(FMul(<< 2, 1 >>, FMul(Ppv(m), Sens(m))), FAdd(Ppv(m), Sens(m)))
F1(m) == FDiv(FMul(<< 2, 1 >>, FMul(Ppv(m), Sens(m))), FAdd(Ppv(m), Sens(m)))

\* The summaries handed to a FileWriter: merge_all("minibatch"), line 425,
\* which has no metric in it, and merge_all("epoch"), lines 428-434.
NoEvent == [writer |-> "none", kind |-> "none", ppv |-> NaN, sens |-> NaN, f1 |-> NaN]
MinibatchEvent(w) ==
  [writer |-> w, kind |-> "minibatch", ppv |-> NaN, sens |-> NaN, f1 |-> NaN]
EpochEvent(w, m) ==
  [writer |-> w, kind |-> "epoch", ppv |-> Ppv(m), sens |-> Sens(m), f1 |-> F1(m)]

\* f"{x:.5}", line 517: the decimal of 5 significant digits nearest to x,
\* kept as <<digits, k>> for digits / 10^k (x < 10^5).
RECURSIVE Pow10(_)
Pow10(k) == IF k = 0 THEN 1 ELSE 10 * Pow10(k - 1)
RECURSIVE Scale5(_, _)
Scale5(v, k) == IF v[1] * Pow10(k) >= v[2] * 10000 THEN k ELSE Scale5(v, k + 1)
Format5(x) ==
  LET v == IF x[2] > 0 THEN x ELSE << 0, 1 >> IN
  IF v[1] = 0 THEN << 0, 1 >>
  ELSE << (2 * v[1] * Pow10(Scale5(v, 0)) + v[2]) \div (2 * v[2]), Scale5(v, 0) >>
\* f"{acc_val:.5}_acc_{mean_loss_val:.5}_loss_{global_epoch}_epoch_model.hdf5"
KerasFilename(acc, loss, epoch) ==
  [st |-> "ok", acc |-> Format5(acc), loss |-> Format5(loss), epoch |-> epoch]

\* What a validation pass has seen, counted apart from the tf.metrics.
NoObs == [correct |-> 0, samples |-> 0, loss |-> 0, batches |-> 0]
Observe(o, b, n) ==
  [correct |-> o.correct + b.tp + b.tn, samples |-> o.samples + n,
   loss |-> o.loss + b.loss, batches |-> o.batches + 1]

\* Files of the experiment directory.
NoCkpt == [st |-> "missing", weights |-> ZeroW, by |-> 0, lin_epochs |-> 0]
NoPickle == [st |-> "missing", step |-> 0, epoch |-> 0, by |-> 0]
NoKeras == [st |-> "missing", acc |-> Unset, loss |-> Unset, epoch |-> 0]

\* Mutant: the epoch is dumped as it was before the increment of line 511.
PickleContent_StaleEpoch(gs, ge) == [step |-> gs, epoch |-> ge - 1]
\* pickle.dump((global_step, global_epoch), f), line 521.
PickleContent(gs, ge) == [step |-> gs, epoch |-> ge]
\* Mutant: the pair is unpacked in the wrong order.
PickleLoad_Swapped(p) == [step |-> p.epoch, epoch |-> p.step]
\* global_step, global_epoch = pickle.load(f), line 457.
PickleLoad(p) == [step |-> p.step, epoch |-> p.epoch]

Min(a, b) == IF a < b THEN a ELSE b
Max(a, b) == IF a > b THEN a ELSE b

VARIABLES
  \* the experiment directory
  disk_ckpt, disk_pickle, disk_keras,
  \* arguments of train()
  clf_epochs, finetune_epochs, batch_size, log_interval, train_n, val_n,
  augmentation, checkpoint, resume,
  \* the running process
  pc, global_step, global_epoch, weights, metrics,
  phase_idx, train_op, epochs, range, loop_i,
  iter_src, iter_pos, vi,
  loss_val, mean_loss_val, acc_val,
  \* the last sess.run of the loops: its fetches, the learning phase it fed,
  \* and whether the samples it pulled went through augment()
  fetches, learning_phase, batch_aug,
  \* the last summary given to a FileWriter
  event,
  \* history
  runs, ckpt_seq, cur_ckpt, restored, at_ckpt,
  epochs_run, steps_run, written_run, passes, resets,
  start, run_floor, prev, prev_floor,
  lin_epochs, val_obs,
  \* construction of the graph: arguments, position in __main__ and train(),
  \* what exists so far, the layers and their trainable flags, the variable
  \* list and the update ops of each train op, and the values they change
  model_name, finetune_layers, model_base, updates_gated,
  bpc, made, trainable, var_list, update_list, params, stats, ran,
  \* one resettable metric (create_reset_metric): its local variables, what
  \* the last update and the last read returned, and the calls made so far
  local_vars, out_up, mean_out, streak, calls, resets_done,
  \* history of the metric: what was observed since the last reset, a metric
  \* created at the last reset and updated alike, the variables before it
  seen, fresh, before_reset, at_update,
  \* one call of get_label: its argument, its outcome, and the segments the
  \* argument was put together from
  filename, lpc, label, segments,
  \* the trainable-layer switch applied again: how often it ran on the flags,
  \* and the flags its first run left
  switch_runs, after_first,
  \* initialization of the global variables of the graph: who calls
  \* initialize_variables, with which --resume, the position, each variable's
  \* _keras_initialized mark and value, whether the local variables are
  \* initialized, the initializer runs so far, the variables as they were
  \* before initialize_variables, and what ran in the loop
  caller, kresume, kpc, global_variables, locals_ready, draws, before_init, kran,
  \* two runs of the loops of train() on the same data and with the same
  \* arguments except log_interval: the state of each run, the log_interval
  \* of each, and the arguments --checkpoint and the counters they start from
  twin, intervals, twin_args

disk == << disk_ckpt, disk_pickle, disk_keras >>
args == << clf_epochs, finetune_epochs, batch_size, log_interval, train_n, val_n,
           augmentation >>
flags == << checkpoint, resume >>
counters == << global_step, global_epoch >>
loop == << phase_idx, train_op, epochs, range, loop_i >>
cursor == << iter_src, iter_pos, vi >>
logged == << loss_val, mean_loss_val, acc_val >>
session == << fetches, learning_phase, batch_aug, event >>
hist == << runs, ckpt_seq, cur_ckpt, restored, at_ckpt, epochs_run, steps_run,
           written_run, passes, resets, start, run_floor, prev, prev_floor, lin_epochs,
           val_obs >>
loop_vars == << disk, args, flags, pc, counters, weights, metrics, loop, cursor, logged,
                session, hist >>
graph_args == << model_name, finetune_layers, model_base, updates_gated >>
graph_vars == << graph_args, bpc, made, trainable, var_list, update_list, params, stats,
                 ran >>
metric_vars == << local_vars, out_up, mean_out, streak, calls, resets_done, seen, fresh,
                  before_reset, at_update >>
label_vars == << filename, lpc, label, segments >>
switch_vars == << switch_runs, after_first >>
keras_vars == << caller, kresume, kpc, global_variables, locals_ready, draws, before_init,
                 kran >>
twin_vars == << twin, intervals, twin_args >>
more_vars == << switch_vars, keras_vars, twin_vars >>
\* The variables the training loop leaves alone.
apart == << graph_vars, metric_vars, label_vars, more_vars >>
beside_graph == << loop_vars, metric_vars, label_vars, more_vars >>
beside_metric == << loop_vars, graph_vars, label_vars, more_vars >>
beside_label == << loop_vars, graph_vars, metric_vars, more_vars >>
vars == << loop_vars, apart >>

NoRestore == [ckpt |-> 0, pickle |-> 0]
NoMem == [weights |-> ZeroW, step |-> 0, epoch |-> 0, id |-> 0]
Pair(gs, ge) == [step |-> gs, epoch |-> ge]

\* The memory of a process that is not running.
MemoryGone ==
  /\ global_step' = 0 /\ global_epoch' = 0
  /\ weights' = ZeroW /\ metrics' = ZeroMetrics
  /\ phase_idx' = 0 /\ train_op' = Clf /\ epochs' = 0
  /\ range' = EpochRange(0, 0) /\ loop_i' = 0
  /\ iter_src' = "none" /\ iter_pos' = 0 /\ vi' = 0
  /\ loss_val' = -1 /\ mean_loss_val' = Unset /\ acc_val' = Unset
  /\ fetches' = {} /\ learning_phase' = NoFeed /\ batch_aug' = FALSE
  /\ event' = NoEvent /\ val_obs' = NoObs
  /\ cur_ckpt' = 0 /\ restored' = NoRestore
  /\ epochs_run' = ZeroCount /\ steps_run' = ZeroCount
  /\ written_run' = 0 /\ passes' = 0 /\ resets' = 0
  /\ start' = Pair(0, 0) /\ run_floor' = Pair(0, 0)
  /\ lin_epochs' = 0

InitLoop ==
  /\ disk_ckpt = NoCkpt /\ disk_pickle = NoPickle /\ disk_keras = NoKeras
  /\ clf_epochs \in ClfEpochsTried
  /\ finetune_epochs \in FinetuneEpochsTried
  /\ batch_size \in BatchSizesTried
  /\ log_interval \in LogIntervals
  /\ train_n \in TrainSizes
  /\ val_n \in ValSizes
  /\ augmentation \in AugmentTried
  /\ checkpoint = FALSE /\ resume = FALSE
  /\ pc = "off"
  /\ global_step = 0 /\ global_epoch = 0
  /\ weights = ZeroW /\ metrics = ZeroMetrics
  /\ phase_idx = 0 /\ train_op = Clf /\ epochs = 0
  /\ range = EpochRange(0, 0) /\ loop_i = 0
  /\ iter_src = "none" /\ iter_pos = 0 /\ vi = 0
  /\ loss_val = -1 /\ mean_loss_val = Unset /\ acc_val = Unset
  /\ fetches = {} /\ learning_phase = NoFeed /\ batch_aug = FALSE
  /\ event = NoEvent /\ val_obs = NoObs
  /\ runs = 0 /\ ckpt_seq = 0 /\ cur_ckpt = 0 /\ restored = NoRestore
  /\ at_ckpt = NoMem
  /\ epochs_run = ZeroCount /\ steps_run = ZeroCount
  /\ written_run = 0 /\ passes = 0 /\ resets = 0
  /\ start = Pair(0, 0) /\ run_floor = Pair(0, 0)
  /\ prev = Pair(0, 0) /\ prev_floor = Pair(0, 0)
  /\ lin_epochs = 0

\* The graph as the loop's specification leaves it: not looked at.
GraphApart ==
  /\ model_name = "vgg" /\ finetune_layers = 0 /\ model_base = << >>
  /\ updates_gated = FALSE
  /\ bpc = "apart" /\ made = {} /\ trainable = << >>
  /\ var_list = [t \in TrainOps |-> {}] /\ update_list = [t \in TrainOps |-> {}]
  /\ params = << >> /\ stats = << >> /\ ran = << >>

\* tf.metrics.mean creates its two local variables as zeros.
MeanCreated == [total |-> 0, count |-> 0]
NoStreak == [after |-> "created", reads |-> 0]
MetricApart ==
  /\ local_vars = MeanCreated /\ out_up = Unset /\ mean_out = Unset
  /\ streak = NoStreak /\ calls = 0 /\ resets_done = 0
  /\ seen = MeanCreated /\ fresh = MeanCreated
  /\ before_reset = MeanCreated /\ at_update = MeanCreated

LabelApart ==
  /\ filename = << >> /\ lpc = "apart" /\ label = -1 /\ segments = << >>

SwitchApart ==
  /\ switch_runs = 0 /\ after_first = << >>

KerasApart ==
  /\ caller = "apart" /\ kresume = FALSE /\ kpc = "apart"
  /\ global_variables = << >> /\ locals_ready = FALSE /\ draws = 0
  /\ before_init = << >> /\ kran = << >>

TwinApart ==
  /\ twin = << >> /\ intervals = << >> /\ twin_args = << >>

MoreApart == SwitchApart /\ KerasApart /\ TwinApart

Init == InitLoop /\ GraphApart /\ MetricApart /\ LabelApart /\ MoreApart

\* ------------------------------------------------------- process start/stop
\* python train_mitoses.py [--resume] [--checkpoint | --no_checkpoint]
Launch(r, c) ==
  /\ pc = "off" /\ runs < MaxRuns
  /\ runs' = runs + 1
  /\ resume' = r /\ checkpoint' = c
  /\ pc' = "initialize"
  /\ UNCHANGED << disk, args, apart, counters, weights, metrics, loop, cursor, session, logged,
                  ckpt_seq, cur_ckpt, restored, at_ckpt, epochs_run, steps_run,
                  written_run, passes, resets, start, run_floor, prev, prev_floor, val_obs,
                  lin_epochs >>

\* The process ends by itself: after the loops, or on an uncaught exception.
Exit ==
  /\ pc \in {"done", "failed"}
  /\ pc' = "off"
  /\ prev' = Pair(global_step, global_epoch) /\ prev_floor' = run_floor
  /\ MemoryGone
  /\ UNCHANGED << disk, args, apart, flags, runs, ckpt_seq, at_ckpt >>

\* The process is stopped from outside, at any statement.  Stopped inside
\* saver.save it may leave the graph-state file as it was or incomplete.
Kill ==
  /\ pc \notin {"off", "done", "failed"}
  /\ pc' = "off"
  /\ prev' = Pair(global_step, global_epoch) /\ prev_floor' = run_floor
  /\ MemoryGone
  /\ IF pc = "save_ckpt"
       THEN disk_ckpt' \in {disk_ckpt, [disk_ckpt EXCEPT !.st = "partial", !.by = cur_ckpt]}
       ELSE disk_ckpt' = disk_ckpt
  /\ UNCHANGED << disk_pickle, disk_keras, args, apart, flags, runs, ckpt_seq, at_ckpt >>

\* ---------------------------------------------------------- initialization
\* initialize_variables(sess), lines 151-195 and 448.
InitializeVariables ==
  /\ pc = "initialize"
  /\ weights' = ZeroW
  /\ metrics' = ZeroMetrics
  /\ global_step' = 0 /\ global_epoch' = 0
  /\ lin_epochs' = 0
  /\ pc' = "resume"
  /\ UNCHANGED << disk, args, apart, flags, loop, cursor, session, logged, runs, ckpt_seq, cur_ckpt,
                  restored, at_ckpt, epochs_run, steps_run, written_run, passes,
                  resets, start, run_floor, prev, prev_floor, val_obs >>

\* Mutant: a truncated file is read as if it were whole.
Readable_Lenient(f) == f.st /= "missing"
\* saver.restore and pickle.load succeed on a complete file only.
Readable(f) == f.st = "ok"

\* if resume: saver.restore(...); pickle.load(...), lines 454-457.
Resume ==
  /\ pc = "resume" /\ resume
  /\ IF ~Readable(disk_ckpt)
       THEN /\ pc' = "failed"
            /\ UNCHANGED << weights, counters, restored, start, run_floor, lin_epochs >>
       ELSE /\ weights' = disk_ckpt.weights
            /\ lin_epochs' = disk_ckpt.lin_epochs
            /\ IF ~Readable(disk_pickle)
                 THEN /\ pc' = "failed"
                      /\ restored' = [ckpt |-> disk_ckpt.by, pickle |-> 0]
                      /\ UNCHANGED << counters, start, run_floor >>
                 ELSE /\ global_step' = PickleLoad(disk_pickle).step
                      /\ global_epoch' = PickleLoad(disk_pickle).epoch
                      /\ restored' = [ckpt |-> disk_ckpt.by, pickle |-> disk_pickle.by]
                      /\ start' = Pair(global_step', global_epoch')
                      /\ run_floor' = Pair(global_step', global_epoch')
                      /\ pc' = "phase"
  /\ UNCHANGED << disk, args, apart, flags, metrics, loop, cursor, session, logged, runs, ckpt_seq,
                  cur_ckpt, at_ckpt, epochs_run, steps_run, written_run, passes,
                  resets, prev, prev_floor, val_obs >>

NoResume ==
  /\ pc = "resume" /\ ~resume
  /\ pc' = "phase"
  /\ UNCHANGED << disk, args, apart, flags, counters, weights, metrics, loop, cursor, session, logged,
                  hist >>

\* ------------------------------------------------------------------ loops
\* Mutant: the counters are started again for each phase.
EnterPhase_ResetsCounters ==
  /\ pc = "phase" /\ phase_idx < Len(PhaseList(clf_epochs, finetune_epochs))
  /\ phase_idx' = phase_idx + 1
  /\ train_op' = PhaseList(clf_epochs, finetune_epochs)[phase_idx'].op
  /\ epochs' = PhaseList(clf_epochs, finetune_epochs)[phase_idx'].epochs
  /\ global_step' = 0 /\ global_epoch' = 0
  /\ range' = EpochRange(global_epoch', epochs')
  /\ loop_i' = range'.lo
  /\ pc' = "epoch"
  /\ UNCHANGED << disk, args, apart, flags, weights, metrics, cursor, session, logged, hist >>

\* for train_op, epochs in [...], line 460: the next pair of the list.
EnterPhase ==
  /\ pc = "phase" /\ phase_idx < Len(PhaseList(clf_epochs, finetune_epochs))
  /\ phase_idx' = phase_idx + 1
  /\ train_op' = PhaseList(clf_epochs, finetune_epochs)[phase_idx'].op
  /\ epochs' = PhaseList(clf_epochs, finetune_epochs)[phase_idx'].epochs
  /\ range' = EpochRange(global_epoch, epochs')
  /\ loop_i' = range'.lo
  /\ pc' = "epoch"
  /\ UNCHANGED << disk, args, apart, flags, counters, weights, metrics, cursor, session, logged, hist >>

\* The list is exhausted: train() returns.
Finish ==
  /\ pc = "phase" /\ phase_idx >= Len(PhaseList(clf_epochs, finetune_epochs))
  /\ pc' = "done"
  /\ UNCHANGED << disk, args, apart, flags, counters, weights, metrics, loop, cursor, session, logged,
                  hist >>

\* for _ in range(...), line 461: one more value of the range.
EnterEpoch ==
  /\ pc = "epoch" /\ loop_i < range.hi
  /\ loop_i' = loop_i + 1
  /\ pc' = "train_init"
  /\ UNCHANGED << disk, args, apart, flags, counters, weights, metrics, phase_idx, train_op,
                  epochs, range, cursor, session, logged, hist >>

LeavePhase ==
  /\ pc = "epoch" /\ loop_i >= range.hi
  /\ pc' = "phase"
  /\ UNCHANGED << disk, args, apart, flags, counters, weights, metrics, loop, cursor, session, logged,
                  hist >>

\* --------------------------------------------------------------- one epoch
\* log_interval > 0 and step % log_interval == 0, lines 466 and 492.
Logs(li, step) == li > 0 /\ step % li = 0

\* Mutant: every minibatch has batch_size samples.
BatchLen_Whole(n, pos, bs) == bs
\* The size of the next minibatch of a source of n samples read up to pos.
BatchLen(n, pos, bs) == Min(bs, n - pos)

\* Mutant: the increment is left out.
StepAfterBatch_Forgotten(gs) == gs
\* Mutant: global_step = 1 instead of global_step += 1.
StepAfterBatch_Assigned(gs) == 1
\* global_step += 1, line 476.
StepAfterBatch(gs) == gs + 1

\* Mutant: only the loss metric's reset op is grouped.
MetricReset_LossOnly(m) == [m EXCEPT !.loss_total = 0, !.loss_count = 0]
\* metric_reset_ops, line 396: all local variables of the four metrics.
MetricReset(m) == ZeroMetrics

\* Number of minibatches .batch(bs) makes of n samples (lines 250, 254).
NumBatches(n, bs) == (n + bs - 1) \div bs

\* sess.run(train_init_op), line 463.
TrainInit ==
  /\ pc = "train_init"
  /\ iter_src' = "train" /\ iter_pos' = 0
  /\ fetches' = {"train_init_op"} /\ learning_phase' = NoFeed
  /\ pc' = "train_step"
  /\ UNCHANGED << disk, args, apart, flags, counters, weights, metrics, loop, vi, logged, batch_aug, event, hist >>

\* One turn of the training loop that gets a minibatch, lines 465-476.  In
\* the logging branch mean_loss and acc are fetched in the same sess.run as
\* their update ops, so each is read before or after its update.
TrainBatch ==
  /\ pc = "train_step" /\ iter_src = "train" /\ iter_pos < train_n
  /\ LET n == BatchLen(train_n, iter_pos, batch_size) IN
     \E b \in BatchResults(n) :
       /\ fetches' = TrainFetches(train_op, Logs(log_interval, global_step))
       /\ learning_phase' = 1
       /\ batch_aug' = Preprocess(TrainMapAugmentation(augmentation)).augmented
       /\ weights' = ApplyTrainOps(weights, fetches')
       /\ metrics' = MetricUpdate(metrics, b, n)
       /\ iter_pos' = iter_pos + n
       /\ IF Logs(log_interval, global_step)
            THEN /\ loss_val' = b.loss
                 /\ mean_loss_val' \in {MeanLoss(metrics), MeanLoss(metrics')}
                 /\ acc_val' \in {Acc(metrics), Acc(metrics')}
                 /\ event' = MinibatchEvent("train")
            ELSE UNCHANGED << loss_val, mean_loss_val, acc_val, event >>
  /\ global_step' = StepAfterBatch(global_step)
  /\ steps_run' = [steps_run EXCEPT ![train_op] = @ + 1]
  /\ UNCHANGED << disk, args, apart, flags, global_epoch, loop, iter_src, vi, pc,
                  runs, ckpt_seq, cur_ckpt, restored, at_ckpt, epochs_run, written_run,
                  passes, resets, start, run_floor, prev, prev_floor, val_obs, lin_epochs >>

\* Mutant: the OutOfRangeError of the training loop is not caught.
TrainEnd_Uncaught ==
  /\ pc = "train_step" /\ iter_src = "train" /\ iter_pos >= train_n
  /\ pc' = "failed"
  /\ UNCHANGED << disk, args, apart, flags, counters, weights, metrics, loop, cursor, session, logged,
                  hist >>

\* The turn that hits the end of the source: OutOfRangeError, break (477-478).
TrainEnd ==
  /\ pc = "train_step" /\ iter_src = "train" /\ iter_pos >= train_n
  /\ pc' = "train_log"
  /\ UNCHANGED << disk, args, apart, flags, counters, weights, metrics, loop, cursor, session, logged,
                  hist >>

\* Lines 480-483: the epoch's training aggregates are read and logged.
TrainLog ==
  /\ pc = "train_log"
  /\ mean_loss_val' = MeanLoss(metrics) /\ acc_val' = Acc(metrics)
  /\ fetches' = EpochFetches /\ learning_phase' = NoFeed
  /\ event' = EpochEvent("train", metrics)
  /\ passes' = passes + 1
  /\ pc' = "train_reset"
  /\ UNCHANGED << disk, args, apart, flags, counters, weights, metrics, loop, cursor, batch_aug, loss_val,
                  runs, ckpt_seq, cur_ckpt, restored, at_ckpt, epochs_run, steps_run,
                  written_run, resets, start, run_floor, prev, prev_floor, val_obs, lin_epochs >>

\* sess.run(metric_reset_ops), line 484.
TrainReset ==
  /\ pc = "train_reset"
  /\ metrics' = MetricReset(metrics)
  /\ fetches' = {"metric_reset_ops"} /\ learning_phase' = NoFeed
  /\ resets' = resets + 1
  /\ pc' = "val_init"
  /\ UNCHANGED << disk, args, apart, flags, counters, weights, loop, cursor, batch_aug, event, logged,
                  runs, ckpt_seq, cur_ckpt, restored, at_ckpt, epochs_run, steps_run,
                  written_run, passes, start, run_floor, prev, prev_floor, val_obs, lin_epochs >>

\* sess.run(val_init_op); vi = 0, lines 487-488.
ValInit ==
  /\ pc = "val_init"
  /\ iter_src' = "val" /\ iter_pos' = 0 /\ vi' = 0
  /\ fetches' = {"val_init_op"} /\ learning_phase' = NoFeed
  /\ val_obs' = NoObs
  /\ pc' = "val_step"
  /\ UNCHANGED << disk, args, apart, flags, counters, weights, metrics, loop, logged, batch_aug, event,
                  runs, ckpt_seq, cur_ckpt, restored, at_ckpt, epochs_run, steps_run,
                  written_run, passes, resets, start, run_floor, prev, prev_floor,
                  lin_epochs >>

\* One turn of the validation loop that gets a minibatch, lines 490-498.
ValBatch ==
  /\ pc = "val_step" /\ iter_src = "val" /\ iter_pos < val_n
  /\ LET n == BatchLen(val_n, iter_pos, batch_size) IN
     \E b \in BatchResults(n) :
       /\ fetches' = ValFetches(Logs(log_interval, vi))
       /\ learning_phase' = 0
       /\ batch_aug' = Preprocess(ValMapAugmentation(augmentation)).augmented
       /\ weights' = ApplyTrainOps(weights, fetches')
       /\ metrics' = MetricUpdate(metrics, b, n)
       /\ val_obs' = Observe(val_obs, b, n)
       /\ iter_pos' = iter_pos + n
       /\ IF Logs(log_interval, vi)
            THEN /\ loss_val' = b.loss
                 /\ mean_loss_val' \in {MeanLoss(metrics), MeanLoss(metrics')}
                 /\ acc_val' \in {Acc(metrics), Acc(metrics')}
            ELSE UNCHANGED << loss_val, mean_loss_val, acc_val >>
  /\ vi' = vi + 1
  /\ UNCHANGED << disk, args, apart, flags, counters, loop, iter_src, pc, event,
                  runs, ckpt_seq, cur_ckpt, restored, at_ckpt, epochs_run, steps_run,
                  written_run, passes, resets, start, run_floor, prev, prev_floor,
                  lin_epochs >>

ValEnd ==
  /\ pc = "val_step" /\ iter_src = "val" /\ iter_pos >= val_n
  /\ pc' = "val_log"
  /\ UNCHANGED << disk, args, apart, flags, counters, weights, metrics, loop, cursor, session, logged,
                  hist >>

\* Mutant: the aggregates are not read again after the validation loop.
ValLog_NoRead ==
  /\ pc = "val_log"
  /\ fetches' = EpochFetches /\ learning_phase' = NoFeed
  /\ event' = EpochEvent("val", metrics)
  /\ passes' = passes + 1
  /\ pc' = "val_reset"
  /\ UNCHANGED << disk, args, apart, flags, counters, weights, metrics, loop, cursor, batch_aug, logged,
                  runs, ckpt_seq, cur_ckpt, restored, at_ckpt, epochs_run, steps_run,
                  written_run, resets, start, run_floor, prev, prev_floor, val_obs, lin_epochs >>

\* Lines 502-505.
ValLog ==
  /\ pc = "val_log"
  /\ mean_loss_val' = MeanLoss(metrics) /\ acc_val' = Acc(metrics)
  /\ fetches' = EpochFetches /\ learning_phase' = NoFeed
  /\ event' = EpochEvent("val", metrics)
  /\ passes' = passes + 1
  /\ pc' = "val_reset"
  /\ UNCHANGED << disk, args, apart, flags, counters, weights, metrics, loop, cursor, batch_aug, loss_val,
                  runs, ckpt_seq, cur_ckpt, restored, at_ckpt, epochs_run, steps_run,
                  written_run, resets, start, run_floor, prev, prev_floor, val_obs, lin_epochs >>

\* sess.run(metric_reset_ops); val_writer.flush(), lines 506-508.
ValReset ==
  /\ pc = "val_reset"
  /\ metrics' = MetricReset(metrics)
  /\ fetches' = {"metric_reset_ops"} /\ learning_phase' = NoFeed
  /\ resets' = resets + 1
  /\ pc' = "incr_epoch"
  /\ UNCHANGED << disk, args, apart, flags, counters, weights, loop, cursor, batch_aug, event, logged,
                  runs, ckpt_seq, cur_ckpt, restored, at_ckpt, epochs_run, steps_run,
                  written_run, passes, start, run_floor, prev, prev_floor, val_obs, lin_epochs >>

\* Where the epoch goes after global_epoch += 1: if checkpoint, line 514.
AfterEpoch(ck) == IF ck THEN "save_keras" ELSE "epoch"

\* global_epoch += 1, line 511.
IncrEpoch ==
  /\ pc = "incr_epoch"
  /\ global_epoch' = global_epoch + 1
  /\ epochs_run' = [epochs_run EXCEPT ![train_op] = @ + 1]
  /\ lin_epochs' = lin_epochs + 1
  /\ pc' = AfterEpoch(checkpoint)
  /\ UNCHANGED << disk, args, apart, flags, global_step, weights, metrics, loop, cursor, session, logged,
                  runs, ckpt_seq, cur_ckpt, restored, at_ckpt, steps_run, written_run,
                  passes, resets, start, run_floor, prev, prev_floor, val_obs >>

\* ------------------------------------------------------------- checkpoint
\* model.save(keras_filename, ...), lines 516-518.
SaveKeras ==
  /\ pc = "save_keras"
  /\ ckpt_seq' = ckpt_seq + 1 /\ cur_ckpt' = ckpt_seq'
  /\ at_ckpt' = [weights |-> weights, step |-> global_step, epoch |-> global_epoch,
                 id |-> cur_ckpt']
  /\ disk_keras' = KerasFilename(acc_val, mean_loss_val, global_epoch)
  /\ written_run' = written_run + 1
  /\ pc' = "save_ckpt"
  /\ UNCHANGED << disk_ckpt, disk_pickle, args, apart, flags, counters, weights, metrics, loop,
                  cursor, session, logged, runs, restored, epochs_run, steps_run, passes, resets,
                  start, run_floor, prev, prev_floor, val_obs, lin_epochs >>

\* saver.save(sess, checkpoint_filename), line 519.
SaverSave ==
  /\ pc = "save_ckpt"
  /\ disk_ckpt' = [st |-> "ok", weights |-> weights, by |-> cur_ckpt,
                   lin_epochs |-> lin_epochs]
  /\ written_run' = written_run + 1
  /\ pc' = "open_pickle"
  /\ UNCHANGED << disk_pickle, disk_keras, args, apart, flags, counters, weights, metrics, loop,
                  cursor, session, logged, runs, ckpt_seq, cur_ckpt, restored, at_ckpt, epochs_run,
                  steps_run, passes, resets, start, run_floor, prev, prev_floor, val_obs,
                  lin_epochs >>

\* open(global_step_epoch_filename, "wb"), line 520: the file is truncated.
OpenPickle ==
  /\ pc = "open_pickle"
  /\ disk_pickle' = [st |-> "partial", step |-> 0, epoch |-> 0, by |-> cur_ckpt]
  /\ written_run' = written_run + 1
  /\ pc' = "dump_pickle"
  /\ UNCHANGED << disk_ckpt, disk_keras, args, apart, flags, counters, weights, metrics, loop,
                  cursor, session, logged, runs, ckpt_seq, cur_ckpt, restored, at_ckpt, epochs_run,
                  steps_run, passes, resets, start, run_floor, prev, prev_floor, val_obs,
                  lin_epochs >>

\* pickle.dump((global_step, global_epoch), f) and the close, lines 521-522.
DumpPickle ==
  /\ pc = "dump_pickle"
  /\ disk_pickle' = [st |-> "ok", step |-> PickleContent(global_step, global_epoch).step,
                     epoch |-> PickleContent(global_step, global_epoch).epoch,
                     by |-> cur_ckpt]
  /\ run_floor' = Pair(global_step, global_epoch)
  /\ pc' = "epoch"
  /\ UNCHANGED << disk_ckpt, disk_keras, args, apart, flags, counters, weights, metrics, loop,
                  cursor, session, logged, runs, ckpt_seq, cur_ckpt, restored, at_ckpt, epochs_run,
                  steps_run, written_run, passes, resets, start, prev, prev_floor, val_obs,
                  lin_epochs >>

\* ------------------------------------------------------------ specification
Next ==
  \/ \E r \in BOOLEAN, c \in BOOLEAN : Launch(r, c)
  \/ Exit
  \/ Kill
  \/ InitializeVariables
  \/ Resume
  \/ NoResume
  \/ EnterPhase
  \/ Finish
  \/ EnterEpoch
  \/ LeavePhase
  \/ TrainInit
  \/ TrainBatch
  \/ TrainEnd
  \/ TrainLog
  \/ TrainReset
  \/ ValInit
  \/ ValBatch
  \/ ValEnd
  \/ ValLog
  \/ ValReset
  \/ IncrEpoch
  \/ SaveKeras
  \/ SaverSave
  \/ OpenPickle
  \/ DumpPickle

Spec == Init /\ [][Next]_vars

\* The statements of a running process: the interpreter goes on to the next
\* statement as long as the process is not stopped from outside.
ProcessStep ==
  \/ InitializeVariables
  \/ Resume
  \/ NoResume
  \/ EnterPhase
  \/ Finish
  \/ EnterEpoch
  \/ LeavePhase
  \/ TrainInit
  \/ TrainBatch
  \/ TrainEnd
  \/ TrainLog
  \/ TrainReset
  \/ ValInit
  \/ ValBatch
  \/ ValEnd
  \/ ValLog
  \/ ValReset
  \/ IncrEpoch
  \/ SaveKeras
  \/ SaverSave
  \/ OpenPickle
  \/ DumpPickle

\* Processes that are started, run undisturbed and end by themselves.
NextUnstopped ==
  \/ \E r \in BOOLEAN, c \in BOOLEAN : Launch(r, c)
  \/ Exit
  \/ ProcessStep

\* The interpreter executes the statement the process is at.  The steps that
\* take pc from "train_log" to "train_reset" are those of TrainLog, and
\* likewise for ValLog.
Fairness ==
  /\ WF_vars(InitializeVariables) /\ WF_vars(Resume) /\ WF_vars(NoResume)
  /\ WF_vars(EnterPhase) /\ WF_vars(Finish)
  /\ WF_vars(EnterEpoch) /\ WF_vars(LeavePhase)
  /\ WF_vars(TrainInit) /\ WF_vars(TrainBatch) /\ WF_vars(TrainEnd)
  /\ WF_pc(pc = "train_log" /\ pc' = "train_reset")
  /\ WF_vars(TrainReset)
  /\ WF_vars(ValInit) /\ WF_vars(ValBatch) /\ WF_vars(ValEnd)
  /\ WF_pc(pc = "val_log" /\ pc' = "val_reset")
  /\ WF_vars(ValReset) /\ WF_vars(IncrEpoch)
  /\ WF_vars(SaveKeras) /\ WF_vars(SaverSave) /\ WF_vars(OpenPickle) /\ WF_vars(DumpPickle)

LiveSpec == Init /\ [][NextUnstopped]_vars /\ Fairness

\* ===================================================== graph construction
\* __main__ (lines 595-611) and the part of train() that builds the graph
\* (lines 243-448), one action per block, then runs of the two train ops.

\* --model_name takes any string (line 538).
ModelNames == {"logreg", "vgg", "resnet", "inception"}
\* The names train() has a branch for (lines 273, 283, 303).
KnownModels == {"logreg", "vgg", "resnet"}
\* --finetune_layers takes any integer (line 555).
FinetuneLayersTried == -1 .. MaxLayers + 1

\* A layer of model_base is a convolution (trainable weights), a batch
\* normalization (trainable weights, and moving statistics with update ops)
\* or a pooling or input layer (no weights).
LayerKinds == {"conv", "bn", "pool"}
\* model_base.layers: empty for logreg (line 275), of VGG16 (line 289), of
\* ResNet50 (line 315).
Backbones(name) ==
  IF name = "vgg" THEN UNION { [1..n -> {"conv", "pool"}] : n \in 1..MaxLayers }
  ELSE IF name = "resnet" THEN UNION { [1..n -> LayerKinds] : n \in 1..MaxLayers }
  ELSE { << >> }
HasParams(kind) == kind \in {"conv", "bn"}
\* The new Dense layer (lines 279, 299, 321); the layers of model_base are 1..n.
DenseHead == 0
ModelLayers(base) == {DenseHead} \cup DOMAIN base

\* A Python slice layers[from:] of a list of n layers, as the set of the
\* 1-based positions it holds.
SliceFrom(n, from) ==
  LET st == IF from < 0 THEN Max(from + n, 0) ELSE Min(from, n)
  IN  { i \in 1..n : i - 1 >= st }
\* Mutant: the slice is taken without the test of line 372, so that
\* finetune_layers = 0 gives layers[-0:], the whole list.
Unfrozen_Unguarded(n, k) == SliceFrom(n, -k)
\* if finetune_layers > 0: model_base.layers[-finetune_layers:], lines 372-373.
Unfrozen(n, k) == IF k > 0 THEN SliceFrom(n, -k) ELSE {}

\* Mutant: the loop flips the flag of each layer of the slice.
SetTrainable_Flipped(tr, layers) ==
  [i \in DOMAIN tr |-> IF i \in layers THEN ~tr[i] ELSE tr[i]]
\* for layer in ...: layer.trainable = True, lines 373-374.
SetTrainable(tr, layers) ==
  [i \in DOMAIN tr |-> IF i \in layers THEN TRUE ELSE tr[i]]
\* The layers whose flag is set.
TrainableLayers(tr) == { i \in DOMAIN tr : tr[i] }

\* Mutant: the last layer of model_base is left trainable.
Frozen_ButLast(base) == [i \in DOMAIN base |-> i = Len(base)]
\* for layer in model_base.layers: layer.trainable = False, lines 359-360.
Frozen(base) == [i \in DOMAIN base |-> FALSE]

\* model.trainable_weights (lines 362, 376): the weights of the new Dense
\* layer and those of the layers of model_base whose trainable flag is set.
TrainableWeights(base, tr) ==
  {DenseHead} \cup { i \in DOMAIN base : tr[i] /\ HasParams(base[i]) }
\* model.updates (lines 365, 379): the moving-statistics updates of the batch
\* normalization layers; whether those of a frozen layer are among them
\* depends on the Keras release.
ModelUpdates(base, tr, gated) ==
  { i \in DOMAIN base : base[i] = "bn" /\ (gated => tr[i]) }

\* The state of the training loop while the graph is being looked at.
LoopApart ==
  /\ InitLoop
  /\ clf_epochs = 0 /\ finetune_epochs = 0 /\ batch_size = 1 /\ log_interval = 0
  /\ train_n = 0 /\ val_n = 0 /\ augmentation

InitGraph ==
  /\ LoopApart /\ MetricApart /\ LabelApart /\ MoreApart
  /\ model_name \in ModelNames
  /\ finetune_layers \in FinetuneLayersTried
  /\ model_base \in Backbones(model_name)
  /\ updates_gated \in BOOLEAN
  /\ bpc = "makedirs" /\ made = {} /\ trainable = << >>
  /\ var_list = [t \in TrainOps |-> {}] /\ update_list = [t \in TrainOps |-> {}]
  /\ params = << >> /\ stats = << >> /\ ran = << >>

\* if not os.path.exists(exp_path): os.makedirs(exp_path), lines 596-598.
MakeExpDir ==
  /\ bpc = "makedirs"
  /\ made' = made \cup {"exp_dir"}
  /\ bpc' = "args_file"
  /\ UNCHANGED << beside_graph, graph_args, trainable, var_list, update_list, params,
                  stats, ran >>

\* args.txt is appended to, lines 601-602.
WriteArgs ==
  /\ bpc = "args_file"
  /\ made' = made \cup {"args_record"}
  /\ bpc' = "copy"
  /\ UNCHANGED << beside_graph, graph_args, trainable, var_list, update_list, params,
                  stats, ran >>

\* shutil.copy2 of the script, line 605; then train() is called, line 608.
CopyScript ==
  /\ bpc = "copy"
  /\ made' = made \cup {"script_copy"}
  /\ bpc' = "data"
  /\ UNCHANGED << beside_graph, graph_args, trainable, var_list, update_list, params,
                  stats, ran >>

\* The two datasets, the iterator and the tensors of a minibatch, lines 244-269.
BuildData ==
  /\ bpc = "data"
  /\ made' = made \cup {"dataset_pipeline", "tensors"}
  /\ bpc' = "model"
  /\ UNCHANGED << beside_graph, graph_args, trainable, var_list, update_list, params,
                  stats, ran >>

\* if model_name == "logreg" ... elif ... else: raise Exception, lines 273-326.
\* Keras creates every layer trainable.
BuildModel ==
  /\ bpc = "model"
  /\ IF model_name \in KnownModels
       THEN /\ made' = made \cup {"model"}
            /\ trainable' = [i \in DOMAIN model_base |-> TRUE]
            /\ params' = [l \in ModelLayers(model_base) |-> 0]
            /\ stats' = [l \in ModelLayers(model_base) |-> 0]
            /\ bpc' = "freeze"
       ELSE /\ bpc' = "raised"
            /\ UNCHANGED << made, trainable, params, stats >>
  /\ UNCHANGED << beside_graph, graph_args, var_list, update_list, ran >>

\* Lines 359-360.
Freeze ==
  /\ bpc = "freeze"
  /\ trainable' = Frozen(model_base)
  /\ bpc' = "clf_op"
  /\ UNCHANGED << beside_graph, graph_args, made, var_list, update_list, params, stats,
                  ran >>

\* clf_train_op, lines 361-366: the variable list and the update ops are
\* taken as they are now.
BuildClfOp ==
  /\ bpc = "clf_op"
  /\ var_list' = [var_list EXCEPT ![Clf] = TrainableWeights(model_base, trainable)]
  /\ update_list' =
       [update_list EXCEPT ![Clf] = ModelUpdates(model_base, trainable, updates_gated)]
  /\ bpc' = "unfreeze"
  /\ UNCHANGED << beside_graph, graph_args, made, trainable, params, stats, ran >>

\* Lines 372-374.
Unfreeze ==
  /\ bpc = "unfreeze"
  /\ trainable' = SetTrainable(trainable, Unfrozen(Len(model_base), finetune_layers))
  /\ bpc' = "finetune_op"
  /\ UNCHANGED << beside_graph, graph_args, made, var_list, update_list, params, stats,
                  ran >>

\* finetune_train_op, lines 375-380.
BuildFinetuneOp ==
  /\ bpc = "finetune_op"
  /\ var_list' = [var_list EXCEPT ![Ft] = TrainableWeights(model_base, trainable)]
  /\ update_list' =
       [update_list EXCEPT ![Ft] = ModelUpdates(model_base, trainable, updates_gated)]
  /\ bpc' = "metrics"
  /\ UNCHANGED << beside_graph, graph_args, made, trainable, params, stats, ran >>

\* The metrics and the summaries, lines 383-434.
BuildMetrics ==
  /\ bpc = "metrics"
  /\ made' = made \cup {"metrics", "summaries"}
  /\ bpc' = "writers"
  /\ UNCHANGED << beside_graph, graph_args, trainable, var_list, update_list, params,
                  stats, ran >>

\* The three FileWriters and the Saver, lines 437-444.
MakeWriters ==
  /\ bpc = "writers"
  /\ made' = made \cup {"log_writers", "saver"}
  /\ bpc' = "session"
  /\ UNCHANGED << beside_graph, graph_args, trainable, var_list, update_list, params,
                  stats, ran >>

\* sess = K.get_session(); initialize_variables(sess), lines 447-448.
GetSession ==
  /\ bpc = "session"
  /\ made' = made \cup {"session"}
  /\ bpc' = "ready"
  /\ UNCHANGED << beside_graph, graph_args, trainable, var_list, update_list, params,
                  stats, ran >>

\* sess.run of a train op (lines 468, 475): the optimizer assigns to the
\* variables of the op's list and the grouped update ops to the statistics.
\* The loop runs the classifier op before the fine-tune op (line 460).
RunTrainOp(op) ==
  /\ bpc = "ready" /\ Len(ran) < MaxTrainSteps
  /\ op = Clf => \A i \in DOMAIN ran : ran[i] = Clf
  /\ params' = [l \in DOMAIN params |->
                  IF l \in var_list[op] THEN params[l] + 1 ELSE params[l]]
  /\ stats' = [l \in DOMAIN stats |->
                 IF l \in update_list[op] THEN stats[l] + 1 ELSE stats[l]]
  /\ ran' = Append(ran, op)
  /\ UNCHANGED << beside_graph, graph_args, bpc, made, trainable, var_list, update_list >>

NextGraph ==
  \/ MakeExpDir
  \/ WriteArgs
  \/ CopyScript
  \/ BuildData
  \/ BuildModel
  \/ Freeze
  \/ BuildClfOp
  \/ Unfreeze
  \/ BuildFinetuneOp
  \/ BuildMetrics
  \/ MakeWriters
  \/ GetSession
  \/ \E op \in TrainOps : RunTrainOp(op)

GraphSpec == InitGraph /\ [][NextGraph]_vars

\* ====================================================== resettable metric
\* create_reset_metric(tf.metrics.mean, scope, values=x), lines 130-148, used
\* as test_resettable_metric does (lines 650-689): any order of runs of the
\* update op, the metric op and the reset op.

\* The values of a batch (the test feeds 0s and 1s) and the batches tried.
ValuesTried == {0, 1}
BatchesTried == UNION { [1..n -> ValuesTried] : n \in 0..MaxBatchLen }
RECURSIVE SumSeq(_)
SumSeq(q) == IF q = << >> THEN 0 ELSE q[1] + SumSeq(Tail(q))

\* Mutant: the update op assigns the batch's sum and size.
MeanUpdate_LastBatch(v, batch) == [total |-> SumSeq(batch), count |-> Len(batch)]
\* update_op of tf.metrics.mean: total += sum(values), count += size(values).
MeanUpdate(v, batch) ==
  [total |-> v.total + SumSeq(batch), count |-> v.count + Len(batch)]
\* metric_op, and the value update_op returns: total / count, 0 if count is 0.
MeanValue(v) == SafeDiv(v.total, v.count)
\* Mutant: running the metric op counts as an observation.
AfterRead_Counted(v) == [v EXCEPT !.count = @ + 1]
\* Running metric_op assigns to nothing.
AfterRead(v) == v
\* Mutant: only the total is initialized again.
ResetOp_TotalOnly(v) == [v EXCEPT !.total = 0]
\* reset_op = tf.variables_initializer(local_vars), lines 145-147.
ResetOp(v) == MeanCreated

InitMetric ==
  /\ LoopApart /\ GraphApart /\ LabelApart /\ MoreApart
  /\ local_vars = MeanCreated /\ out_up = Unset /\ mean_out = Unset
  /\ streak = NoStreak /\ calls = 0 /\ resets_done = 0
  /\ seen = MeanCreated /\ fresh = MeanCreated
  /\ before_reset = MeanCreated /\ at_update = MeanCreated

\* out_up = sess.run(update_op, feed_dict={x: batch}), lines 665, 670, 675.
RunUpdate(batch) ==
  /\ calls < MaxCalls
  /\ local_vars' = MeanUpdate(local_vars, batch)
  /\ out_up' = MeanValue(local_vars')
  /\ streak' = [after |-> "update", reads |-> 0]
  /\ calls' = calls + 1
  /\ seen' = [total |-> seen.total + SumSeq(batch), count |-> seen.count + Len(batch)]
  /\ fresh' = [total |-> fresh.total + SumSeq(batch), count |-> fresh.count + Len(batch)]
  /\ at_update' = local_vars'
  /\ UNCHANGED << beside_metric, mean_out, resets_done, before_reset >>

\* sess.run(mean_op), lines 667-668.
RunRead ==
  /\ calls < MaxCalls
  /\ mean_out' = MeanValue(local_vars)
  /\ local_vars' = AfterRead(local_vars)
  /\ streak' = [streak EXCEPT !.reads = @ + 1]
  /\ calls' = calls + 1
  /\ UNCHANGED << beside_metric, out_up, resets_done, seen, fresh, before_reset,
                  at_update >>

\* sess.run(reset_op), line 680.
RunReset ==
  /\ calls < MaxCalls
  /\ before_reset' = local_vars
  /\ local_vars' = ResetOp(local_vars)
  /\ streak' = [after |-> "reset", reads |-> 0]
  /\ calls' = calls + 1
  /\ resets_done' = resets_done + 1
  /\ seen' = MeanCreated /\ fresh' = MeanCreated
  /\ UNCHANGED << beside_metric, out_up, mean_out, at_update >>

NextMetric ==
  \/ \E batch \in BatchesTried : RunUpdate(batch)
  \/ RunRead
  \/ RunReset

MetricSpec == InitMetric /\ [][NextMetric]_vars

\* ================================================================ get_label
\* get_label(filename), lines 19-40, run as test_get_label does (619-647).
\* A file name is a sequence of tokens: "/" or a run of other characters.

SegmentNames == {"mitosis", "normal", "Mitosis", "train", "1_03_05.jpg"}
SegmentSeqs == UNION { [1..n -> SegmentNames] : n \in 1..MaxSegments }
\* The file name made of the segments q with the separator sep between them.
RECURSIVE Join(_, _)
Join(q, sep) ==
  IF q = << >> THEN << >>
  ELSE IF Len(q) = 1 THEN << q[1] >>
  ELSE << q[1] >> \o sep \o Join(Tail(q), sep)

\* tf.string_split([filename], "/").values, line 32: the pieces between the
\* delimiters, the empty ones left out.
RECURSIVE Split(_, _, _)
Split(str, piece, done) ==
  IF str = << >> THEN (IF piece = << >> THEN done ELSE Append(done, piece))
  ELSE IF str[1] = "/"
    THEN Split(Tail(str), << >>, IF piece = << >> THEN done ELSE Append(done, piece))
    ELSE Split(Tail(str), Append(piece, str[1]), done)
StringSplit(str) == Split(str, << >>, << >>)

\* Mutant: every label string passes the check.
IsValid_Always(label_str) == TRUE
\* is_valid, line 35.
IsValid(label_str) == label_str = << "normal" >> \/ label_str = << "mitosis" >>
\* tf.to_float(tf.equal(label_str, 'mitosis')), line 39.
ToFloat(b) == IF b THEN 1 ELSE 0
NoLabel == -1
\* The outcome of running the label op: splits.values[-2] fails on fewer than
\* two pieces, tf.Assert fails on a label string that is not valid.
GetLabel(str) ==
  LET splits == StringSplit(str) IN
  IF Len(splits) < 2 THEN [raised |-> TRUE, label |-> NoLabel]
  ELSE LET label_str == splits[Len(splits) - 1] IN
       IF ~IsValid(label_str) THEN [raised |-> TRUE, label |-> NoLabel]
       ELSE [raised |-> FALSE, label |-> ToFloat(label_str = << "mitosis" >>)]

InitLabel ==
  /\ LoopApart /\ GraphApart /\ MetricApart /\ MoreApart
  /\ segments \in SegmentSeqs
  /\ \E lead \in {<< >>, << "/" >>}, sep \in {<< "/" >>, << "/", "/" >>} :
       filename = lead \o Join(segments, sep)
  /\ lpc = "call" /\ label = NoLabel

\* label = sess.run(get_label(filename)), lines 626-628.
RunGetLabel ==
  /\ lpc = "call"
  /\ lpc' = IF GetLabel(filename).raised THEN "raised" ELSE "returned"
  /\ label' = GetLabel(filename).label
  /\ UNCHANGED << beside_label, filename, segments >>

NextLabel == RunGetLabel

LabelSpec == InitLabel /\ [][NextLabel]_vars

\* ================================================= trainable-layer switch
\* The block of lines 372-374 applied to the flags of a frozen model_base
\* (lines 359-360), and applied again to the flags it left.

InitSwitch ==
  /\ LoopApart /\ MetricApart /\ LabelApart
  /\ model_name \in KnownModels
  /\ finetune_layers \in FinetuneLayersTried
  /\ model_base \in Backbones(model_name)
  /\ updates_gated = FALSE
  /\ bpc = "apart" /\ made = {}
  /\ trainable = Frozen(model_base)
  /\ var_list = [t \in TrainOps |-> {}] /\ update_list = [t \in TrainOps |-> {}]
  /\ params = << >> /\ stats = << >> /\ ran = << >>
  /\ switch_runs = 0 /\ after_first = << >>
  /\ KerasApart /\ TwinApart

\* if finetune_layers > 0: for layer in model_base.layers[-finetune_layers:]:
\* layer.trainable = True, lines 372-374.
ApplySwitch ==
  /\ switch_runs < MaxSwitches
  /\ trainable' = SetTrainable(trainable, Unfrozen(Len(model_base), finetune_layers))
  /\ switch_runs' = switch_runs + 1
  /\ after_first' = IF switch_runs = 0 THEN trainable' ELSE after_first
  /\ UNCHANGED << loop_vars, metric_vars, label_vars, keras_vars, twin_vars, graph_args, bpc, made,
                  var_list, update_list, params, stats, ran >>

NextSwitch == ApplySwitch

SwitchSpec == InitSwitch /\ [][NextSwitch]_vars

\* ================================================ variable initialization
\* initialize_variables(sess), lines 151-195, as train() calls it (447-448,
\* followed by the resume branch and the loop) and as
\* test_initialize_variables calls it (lines 692-747).

\* The global variables of the graph, by the block that creates them: the
\* weights of model_base (lines 289, 315), those of the new Dense layer (279,
\* 299, 321), the slots of the Adam optimizer (361-364) and those of the
\* momentum optimizer (375-378).  The local variables are those of the metrics.
BaseVars(name) == IF name \in {"vgg", "resnet"} THEN {"model_base"} ELSE {}
DenseVars == {"dense"}
OptimizerVars == {"clf_opt", "finetune_opt"}
GraphVariables(name) == BaseVars(name) \cup DenseVars \cup OptimizerVars

\* The value of a variable: where it came from, for a value drawn by an
\* initializer the run that drew it, and the train steps applied to it since.
NotInitialized == [from |-> "none", draw |-> 0, steps |-> 0]
Pretrained == [from |-> "pretrained", draw |-> 0, steps |-> 0]
Drawn(k) == [from |-> "initializer", draw |-> k, steps |-> 0]
FromCheckpoint == [from |-> "checkpoint", draw |-> 0, steps |-> 0]
Created == [marked |-> FALSE, value |-> NotInitialized]
\* Loading the pretrained weights goes through K.get_session(), which
\* initializes and marks the variables, then assigns them (lines 712-716).
CreatedPretrained == [marked |-> TRUE, value |-> Pretrained]

\* Mutant: every global variable is handed to the initializer.
Uninitialized_All(vs) == DOMAIN vs
\* Lines 184-188: the variables without the mark, or with a false one.
Uninitialized(vs) == { v \in DOMAIN vs : ~vs[v].marked }
\* Mutant: the mark is not set.
MarkOf_Forgotten(m) == m
\* v._keras_initialized = True, line 189.
MarkOf(m) == TRUE
\* Lines 184-192, global part: the variables of the list are marked and then
\* given the values the initializer draws in run k.  K.get_session() applies
\* the same logic (lines 164-180: this is K._initialize_variables reproduced).
InitializeGlobals(vs, k) ==
  [v \in DOMAIN vs |->
     IF v \in Uninitialized(vs)
       THEN [marked |-> MarkOf(vs[v].marked), value |-> Drawn(k)]
       ELSE vs[v]]
\* K.get_session() runs an initializer only if its list is not empty.
HookDraws(vs, k) == IF Uninitialized(vs) = {} THEN k ELSE k + 1
\* saver.restore assigns to every global variable the value in the file.
RestoreAll(vs) == [v \in DOMAIN vs |-> [vs[v] EXCEPT !.value = FromCheckpoint]]
\* The variables a train op assigns to: those of its optimizer and the
\* model weights of its variable list.
AssignedBy(op, name) ==
  IF op = Clf THEN {"dense", "clf_opt"}
  ELSE {"dense", "finetune_opt"} \cup BaseVars(name)
ApplyOp(vs, op, name) ==
  [v \in DOMAIN vs |->
     IF v \in AssignedBy(op, name) THEN [vs[v] EXCEPT !.value.steps = @ + 1] ELSE vs[v]]

Callers == {"train", "test"}

InitKeras ==
  /\ LoopApart /\ MetricApart /\ LabelApart /\ SwitchApart /\ TwinApart
  /\ caller \in Callers
  /\ model_name \in (IF caller = "test" THEN {"vgg"} ELSE KnownModels)
  /\ kresume \in (IF caller = "test" THEN {FALSE} ELSE BOOLEAN)
  /\ finetune_layers = 0 /\ model_base = << >> /\ updates_gated = FALSE
  /\ bpc = "apart" /\ made = {} /\ trainable = << >>
  /\ var_list = [t \in TrainOps |-> {}] /\ update_list = [t \in TrainOps |-> {}]
  /\ params = << >> /\ stats = << >> /\ ran = << >>
  /\ kpc = (IF caller = "test" THEN "session" ELSE "model")
  /\ global_variables = << >> /\ locals_ready = FALSE /\ draws = 0
  /\ before_init = << >> /\ kran = << >>

keras_rest == << loop_vars, graph_vars, metric_vars, label_vars, switch_vars, twin_vars,
                 caller, kresume >>

\* model_base is built with its pretrained weights: lines 275, 289, 315, and
\* line 705 of the test.
CreateBase ==
  /\ kpc = "model"
  /\ global_variables' = [v \in BaseVars(model_name) |-> CreatedPretrained]
  /\ kpc' = "dense"
  /\ UNCHANGED << keras_rest, locals_ready, draws, before_init, kran >>

\* The new Dense layer: lines 279, 299, 321, and line 708 of the test.
CreateDense ==
  /\ kpc = "dense"
  /\ global_variables' =
       [v \in DOMAIN global_variables \cup DenseVars |->
          IF v \in DenseVars THEN Created ELSE global_variables[v]]
  /\ kpc' = (IF caller = "test" THEN "init" ELSE "optim")
  /\ UNCHANGED << keras_rest, locals_ready, draws, before_init, kran >>

\* The two optimizers and the metrics are built: lines 356-396.
CreateOptimizers ==
  /\ kpc = "optim"
  /\ global_variables' =
       [v \in DOMAIN global_variables \cup OptimizerVars |->
          IF v \in OptimizerVars THEN Created ELSE global_variables[v]]
  /\ kpc' = "session"
  /\ UNCHANGED << keras_rest, locals_ready, draws, before_init, kran >>

\* sess = K.get_session(), line 447, and line 698 of the test.
GetKerasSession ==
  /\ kpc = "session"
  /\ global_variables' = InitializeGlobals(global_variables, draws + 1)
  /\ draws' = HookDraws(global_variables, draws)
  /\ kpc' = (IF caller = "test" THEN "model" ELSE "init")
  /\ UNCHANGED << keras_rest, locals_ready, before_init, kran >>

\* initialize_variables(sess), line 448, and line 735 of the test.
RunInitializeVariables ==
  /\ kpc = "init"
  /\ before_init' = global_variables
  /\ global_variables' = InitializeGlobals(global_variables, draws + 1)
  /\ draws' = draws + 1
  /\ locals_ready' = TRUE
  /\ kpc' = (IF caller = "test" THEN "checked" ELSE "resume")
  /\ UNCHANGED << keras_rest, kran >>

\* if resume: saver.restore(sess, checkpoint_filename), lines 454-455.
RestoreVariables ==
  /\ kpc = "resume"
  /\ global_variables' =
       (IF kresume THEN RestoreAll(global_variables) ELSE global_variables)
  /\ kpc' = "loop"
  /\ UNCHANGED << keras_rest, locals_ready, draws, before_init, kran >>

\* sess.run of a train op, lines 468 and 475; classifier steps come first.
TrainVariables(op) ==
  /\ kpc = "loop" /\ Len(kran) <= MaxTrainSteps
  /\ op = Clf => \A i \in DOMAIN kran : kran[i] /= Ft
  /\ global_variables' = ApplyOp(global_variables, op, model_name)
  /\ kran' = Append(kran, op)
  /\ UNCHANGED << keras_rest, kpc, locals_ready, draws, before_init >>

\* model.save(...), line 518, goes through K.get_session(); saver.save, 519.
SaveVariables ==
  /\ kpc = "loop" /\ Len(kran) <= MaxTrainSteps
  /\ global_variables' = InitializeGlobals(global_variables, draws + 1)
  /\ draws' = HookDraws(global_variables, draws)
  /\ kran' = Append(kran, "save")
  /\ UNCHANGED << keras_rest, kpc, locals_ready, before_init >>

NextKeras ==
  \/ CreateBase
  \/ CreateDense
  \/ CreateOptimizers
  \/ GetKerasSession
  \/ RunInitializeVariables
  \/ RestoreVariables
  \/ \E op \in TrainOps : TrainVariables(op)
  \/ SaveVariables

KerasSpec == InitKeras /\ [][NextKeras]_vars

\* ============================================================== two runs
\* The loops of train() (lines 460-522) as a function from the state of a run
\* to its state after the next statement, applied to two runs that get the
\* same minibatches and differ in log_interval only.

\* --log_interval takes any integer (line 567).
TwinIntervals == {-1, 0, 1, 2}
\* The counters the runs start from: 0, 0 or those of a checkpoint (448-457).
TwinStarts == {Pair(0, 0), Pair(1, 1)}

RunStart(st) ==
  [pc |-> "phase", phase_idx |-> 0, train_op |-> Clf, epochs |-> 0, hi |-> 0, loop_i |-> 0,
   global_step |-> st.step, global_epoch |-> st.epoch,
   weights |-> ZeroW, metrics |-> ZeroMetrics,
   iter_src |-> "none", iter_pos |-> 0, vi |-> 0,
   loss_val |-> -1, mean_loss_val |-> Unset, acc_val |-> Unset,
   fetches |-> {}, event |-> NoEvent,
   keras |-> NoKeras, ckpt |-> [st |-> "missing", weights |-> ZeroW],
   pickle |-> [st |-> "missing", step |-> 0, epoch |-> 0]]

\* Lines 460-461.
LoopStmt(s) ==
  IF s.pc = "phase"
    THEN IF s.phase_idx < Len(PhaseList(clf_epochs, finetune_epochs))
           THEN LET p == PhaseList(clf_epochs, finetune_epochs)[s.phase_idx + 1]
                    r == EpochRange(s.global_epoch, p.epochs)
                IN  [s EXCEPT !.phase_idx = @ + 1, !.train_op = p.op, !.epochs = p.epochs,
                              !.hi = r.hi, !.loop_i = r.lo, !.pc = "epoch"]
           ELSE [s EXCEPT !.pc = "done"]
    ELSE IF s.loop_i < s.hi
           THEN [s EXCEPT !.loop_i = @ + 1, !.pc = "train_init"]
           ELSE [s EXCEPT !.pc = "phase"]

\* One turn of the training loop, lines 465-478, on the minibatch b; early
\* tells whether the logged aggregates were read before their update.
TrainTurn(s, li, b, early) ==
  IF s.iter_pos >= train_n THEN [s EXCEPT !.pc = "train_log"]
  ELSE LET n == BatchLen(train_n, s.iter_pos, batch_size)
           log == Logs(li, s.global_step)
           f == TrainFetches(s.train_op, log)
           m == MetricUpdate(s.metrics, b, n)
           read == IF early THEN s.metrics ELSE m
       IN  [s EXCEPT !.fetches = f,
                     !.weights = ApplyTrainOps(s.weights, f),
                     !.metrics = m,
                     !.iter_pos = @ + n,
                     !.loss_val = IF log THEN b.loss ELSE @,
                     !.mean_loss_val = IF log THEN MeanLoss(read) ELSE @,
                     !.acc_val = IF log THEN Acc(read) ELSE @,
                     !.event = IF log THEN MinibatchEvent("train") ELSE @,
                     !.global_step = StepAfterBatch(@)]

\* One turn of the validation loop, lines 490-500.
ValTurn(s, li, b, early) ==
  IF s.iter_pos >= val_n THEN [s EXCEPT !.pc = "val_log"]
  ELSE LET n == BatchLen(val_n, s.iter_pos, batch_size)
           log == Logs(li, s.vi)
           f == ValFetches(log)
           m == MetricUpdate(s.metrics, b, n)
           read == IF early THEN s.metrics ELSE m
       IN  [s EXCEPT !.fetches = f,
                     !.weights = ApplyTrainOps(s.weights, f),
                     !.metrics = m,
                     !.iter_pos = @ + n,
                     !.loss_val = IF log THEN b.loss ELSE @,
                     !.mean_loss_val = IF log THEN MeanLoss(read) ELSE @,
                     !.acc_val = IF log THEN Acc(read) ELSE @,
                     !.vi = @ + 1]

\* Lines 463, 480-488 and 502-508: the init ops, the reads of the aggregates
\* and the resets.
PassStmt(s) ==
  CASE s.pc = "train_init" ->
         [s EXCEPT !.iter_src = "train", !.iter_pos = 0, !.fetches = {"train_init_op"},
                   !.pc = "train_step"]
    [] s.pc = "train_log" ->
         [s EXCEPT !.mean_loss_val = MeanLoss(s.metrics), !.acc_val = Acc(s.metrics),
                   !.fetches = EpochFetches, !.event = EpochEvent("train", s.metrics),
                   !.pc = "train_reset"]
    [] s.pc = "train_reset" ->
         [s EXCEPT !.metrics = MetricReset(s.metrics), !.fetches = {"metric_reset_ops"},
                   !.pc = "val_init"]
    [] s.pc = "val_init" ->
         [s EXCEPT !.iter_src = "val", !.iter_pos = 0, !.vi = 0,
                   !.fetches = {"val_init_op"}, !.pc = "val_step"]
    [] s.pc = "val_log" ->
         [s EXCEPT !.mean_loss_val = MeanLoss(s.metrics), !.acc_val = Acc(s.metrics),
                   !.fetches = EpochFetches, !.event = EpochEvent("val", s.metrics),
                   !.pc = "val_reset"]
    [] s.pc = "val_reset" ->
         [s EXCEPT !.metrics = MetricReset(s.metrics), !.fetches = {"metric_reset_ops"},
                   !.pc = "incr_epoch"]
    [] OTHER -> s

\* Lines 511-522: the increment and the three files of the checkpoint.
EpochEndStmt(s, ck) ==
  CASE s.pc = "incr_epoch" ->
         [s EXCEPT !.global_epoch = @ + 1, !.pc = AfterEpoch(ck)]
    [] s.pc = "save_keras" ->
         [s EXCEPT !.keras = KerasFilename(s.acc_val, s.mean_loss_val, s.global_epoch),
                   !.pc = "save_ckpt"]
    [] s.pc = "save_ckpt" ->
         [s EXCEPT !.ckpt = [st |-> "ok", weights |-> s.weights], !.pc = "dump_pickle"]
    [] s.pc = "dump_pickle" ->
         [s EXCEPT !.pickle = [st |-> "ok",
                               step |-> PickleContent(s.global_step, s.global_epoch).step,
                               epoch |-> PickleContent(s.global_step, s.global_epoch).epoch],
                   !.pc = "epoch"]
    [] OTHER -> s

\* The next statement of a run.
RunStmt(s, li, ck, b, early) ==
  CASE s.pc \in {"phase", "epoch"} -> LoopStmt(s)
    [] s.pc = "train_step" -> TrainTurn(s, li, b, early)
    [] s.pc = "val_step" -> ValTurn(s, li, b, early)
    [] s.pc \in {"train_init", "train_log", "train_reset", "val_init", "val_log",
                 "val_reset"} -> PassStmt(s)
    [] s.pc \in {"incr_epoch", "save_keras", "save_ckpt", "dump_pickle"} ->
         EpochEndStmt(s, ck)
    [] OTHER -> s

NoBatch == [loss |-> 0, tp |-> 0, fp |-> 0, fn |-> 0, tn |-> 0]
Twins == {1, 2}

InitTwin ==
  /\ InitLoop /\ log_interval = 0
  /\ GraphApart /\ MetricApart /\ LabelApart /\ SwitchApart /\ KerasApart
  /\ intervals \in { iv \in [Twins -> TwinIntervals] : iv[1] < iv[2] }
  /\ twin_args \in [checkpoint : BOOLEAN, start : TwinStarts]
  /\ twin = [i \in Twins |-> RunStart(twin_args.start)]

twin_rest == << loop_vars, graph_vars, metric_vars, label_vars, switch_vars, keras_vars,
                intervals, twin_args >>

\* Each run executes its next statement; the runs are given the same
\* minibatch wherever they pull one.
TwinStep(b, e1, e2) ==
  twin' = [i \in Twins |->
             RunStmt(twin[i], intervals[i], twin_args.checkpoint, b,
                     IF i = 1 THEN e1 ELSE e2)]

\* Lines 460-461.
TwinLoop ==
  /\ twin[1].pc \in {"phase", "epoch"}
  /\ TwinStep(NoBatch, FALSE, FALSE)
  /\ UNCHANGED twin_rest

\* A turn of the training or of the validation loop.
TwinTurn ==
  /\ twin[1].pc \in {"train_step", "val_step"}
  /\ LET size == IF twin[1].pc = "train_step" THEN train_n ELSE val_n
         n == Max(BatchLen(size, twin[1].iter_pos, batch_size), 0)
     IN  \E b \in BatchResults(n), e1 \in BOOLEAN, e2 \in BOOLEAN : TwinStep(b, e1, e2)
  /\ UNCHANGED twin_rest

TwinPass ==
  /\ twin[1].pc \in {"train_init", "train_log", "train_reset", "val_init", "val_log",
                     "val_reset"}
  /\ TwinStep(NoBatch, FALSE, FALSE)
  /\ UNCHANGED twin_rest

TwinEpochEnd ==
  /\ twin[1].pc \in {"incr_epoch", "save_keras", "save_ckpt", "dump_pickle"}
  /\ TwinStep(NoBatch, FALSE, FALSE)
  /\ UNCHANGED twin_rest

NextTwin ==
  \/ TwinLoop
  \/ TwinTurn
  \/ TwinPass
  \/ TwinEpochEnd

TwinSpec == InitTwin /\ [][NextTwin]_vars

\* ------------------------------------------------------------------ claims
Total(f) == f[Clf] + f[Ft]
TrainPcs == {"train_init", "train_step", "train_log"}
ValPcs == {"train_reset", "val_init", "val_step", "val_log"}
EndPcs == {"val_reset", "incr_epoch"}
CkptPcs == {"save_keras", "save_ckpt", "open_pickle", "dump_pickle"}
BetweenPcs == {"phase", "epoch", "done"}
BodyPcs == TrainPcs \cup ValPcs \cup EndPcs \cup CkptPcs
LoopPcs == BodyPcs \cup BetweenPcs
\* The process has passed the resume branch with --resume given.
Resumed == resume /\ pc \in LoopPcs

\* C1: every run of train() that reaches its end has executed exactly
\* clf_epochs epochs with the classifier train op and then exactly
\* finetune_epochs epochs with the fine-tune train op, whatever global_epoch it
\* started from; each epoch is a training pass, then a validation pass, then
\* the checkpoint writes only if checkpointing is on; and no fine-tune step or
\* epoch happens before all classifier epochs of the run are over.
C1_TwoPhaseSchedule ==
  /\ pc = "done" =>
       /\ epochs_run[Clf] = clf_epochs /\ epochs_run[Ft] = finetune_epochs
       /\ steps_run[Clf] = clf_epochs * NumBatches(train_n, batch_size)
       /\ steps_run[Ft] = finetune_epochs * NumBatches(train_n, batch_size)
  /\ pc \in LoopPcs =>
       /\ epochs_run[Clf] <= clf_epochs /\ epochs_run[Ft] <= finetune_epochs
       /\ (steps_run[Ft] > 0 \/ epochs_run[Ft] > 0) => epochs_run[Clf] = clf_epochs
       /\ pc \in BodyPcs \ CkptPcs /\ train_op = Clf =>
            epochs_run[Clf] < clf_epochs /\ Total(epochs_run) = epochs_run[Clf]
              /\ steps_run[Ft] = 0
       /\ pc \in BodyPcs \ CkptPcs /\ train_op = Ft =>
            epochs_run[Clf] = clf_epochs /\ epochs_run[Ft] < finetune_epochs
       /\ pc \in TrainPcs => passes = 2 * Total(epochs_run)
       /\ pc \in ValPcs => passes = 2 * Total(epochs_run) + 1
       /\ pc \in EndPcs => passes = 2 * Total(epochs_run) + 2
       /\ pc \in CkptPcs \cup BetweenPcs => passes = 2 * Total(epochs_run)
       /\ pc = "train_log" => iter_src = "train"
       /\ pc = "val_log" => iter_src = "val"
       /\ pc \in CkptPcs => checkpoint
       /\ ~checkpoint => written_run = 0
       /\ checkpoint /\ pc \notin CkptPcs /\ pc /= "incr_epoch" =>
            written_run = 3 * Total(epochs_run)
       /\ checkpoint /\ pc = "incr_epoch" => written_run = 3 * Total(epochs_run)

\* A resumed run that starts from a positive global_epoch has gone through
\* both phases, training batches in each.
C1_Witness ==
  /\ pc = "done" /\ resume /\ start.epoch > 0
  /\ clf_epochs > 0 /\ finetune_epochs > 0
  /\ steps_run[Clf] > 0 /\ steps_run[Ft] > 0

\* C2: a run resumed with restored global_epoch = k executes only the epochs
\* not yet completed: clf_epochs - k classifier epochs (none when
\* k >= clf_epochs) and the fine-tune epochs that remain after that.
C2_ResumeRunsRemainingEpochs ==
  /\ Resumed /\ start.epoch >= clf_epochs => epochs_run[Clf] = 0
  /\ Resumed /\ pc = "done" =>
       /\ epochs_run[Clf] = Max(clf_epochs - start.epoch, 0)
       /\ epochs_run[Ft] =
            Max(finetune_epochs - Max(start.epoch - clf_epochs, 0), 0)

\* C3: in a resumed run the graph state and the counters that were restored
\* were written by the same execution of the checkpoint block.
C3_RestoredFromOneCheckpoint ==
  Resumed => restored.ckpt = restored.pickle

\* C4 as stated: a resumed run starts from counters that are not smaller than
\* the counters the previous process had reached when it stopped.
C4_NotBelowReached ==
  Resumed => start.step >= prev.step /\ start.epoch >= prev.epoch

\* C4 as amended: a resumed run starts from counters that are not smaller
\* than those of the last checkpoint the previous process completed, or, if it
\* completed none, than the counters that process itself started from.
C4_NotBelowLastCheckpoint ==
  Resumed => start.step >= prev_floor.step /\ start.epoch >= prev_floor.epoch

\* The previous process had completed a checkpoint, trained on, and was
\* stopped; the resumed run starts below what that process had reached.
C4_Witness ==
  /\ Resumed /\ prev_floor.epoch > 0 /\ prev_floor.step > 0
  /\ prev.step > start.step

\* C5: resuming from a checkpoint that was written completely gives back the
\* weights and the (global_step, global_epoch) pair that were in memory when
\* that checkpoint was taken.
C5_CheckpointRoundTrip ==
  pc = "phase" /\ phase_idx = 0 /\ resume
    /\ restored.ckpt = at_ckpt.id /\ restored.pickle = at_ckpt.id =>
      /\ weights = at_ckpt.weights
      /\ global_step = at_ckpt.step
      /\ global_epoch = at_ckpt.epoch

C5_Witness ==
  /\ pc = "phase" /\ phase_idx = 0 /\ resume
  /\ restored.ckpt = at_ckpt.id /\ restored.pickle = at_ckpt.id
  /\ at_ckpt.step > 1 /\ at_ckpt.epoch > 1 /\ at_ckpt.step /= at_ckpt.epoch

\* C6: with --resume and a graph-state file or counters file that is missing
\* or incomplete, the run fails before it trains a batch, completes an epoch
\* or writes a file, and it never enters the training loop.
Broken(f) == f.st \in {"missing", "partial"}
C6_ResumeNeedsBothFiles ==
  /\ resume /\ pc = "failed" =>
       Total(steps_run) = 0 /\ Total(epochs_run) = 0 /\ written_run = 0
  /\ resume /\ pc \in {"initialize", "resume", "failed"} =>
       written_run = 0 /\ Total(steps_run) = 0
  /\ resume /\ pc /= "off" /\ written_run = 0
       /\ (Broken(disk_ckpt) \/ Broken(disk_pickle)) =>
       pc \in {"initialize", "resume", "failed"}

\* The graph state was restored, the counters file was found truncated.
C6_Witness ==
  /\ resume /\ pc = "failed"
  /\ disk_ckpt.st = "ok" /\ disk_pickle.st = "partial"

\* C7: the counters file holds, as global_epoch, the number of epochs the
\* saved model has completed and, as global_step, the number of minibatches
\* it was trained on in those epochs.
C7_PersistedCountersAreProgress ==
  disk_pickle.st = "ok" /\ disk_ckpt.st = "ok" /\ disk_pickle.by = disk_ckpt.by =>
    /\ disk_pickle.epoch = disk_ckpt.lin_epochs
    /\ disk_pickle.step = Total(disk_ckpt.weights)

\* C8: while the loops run, global_step grows by one in exactly the steps
\* that apply a train op, and is left alone by every other step (the pull
\* that ends a pass, validation, metric reads and resets, the checkpoint).
C8_StepCountsTrainedBatches ==
  [][ (pc \in LoopPcs /\ pc' \in LoopPcs) =>
        (IF weights' /= weights
           THEN global_step' = global_step + 1
           ELSE global_step' = global_step) ]_vars

\* Validation batches were processed after training batches.
C8_Witness ==
  /\ pc = "val_step" /\ vi > 0 /\ steps_run[Clf] > 1 /\ global_step > 1

\* C9: as long as the process lives neither counter decreases, and the step
\* from the classifier phase to the fine-tune phase leaves both as they are.
C9_CountersMonotonicInRun ==
  [][ (pc' /= "off") =>
        /\ global_step' >= global_step
        /\ global_epoch' >= global_epoch
        /\ (phase_idx' /= phase_idx => UNCHANGED << global_step, global_epoch >>) ]_vars

\* The fine-tune phase was entered with both counters positive.
C9_Witness ==
  /\ phase_idx = 2 /\ pc = "train_step" /\ iter_pos > 0
  /\ epochs_run[Clf] > 0 /\ global_step > 1 /\ global_epoch > 0 /\ resume

\* C10: the metric reset runs once after each pass, after that pass's
\* aggregates were read; the accumulators are empty when a pass starts; and the
\* aggregates logged for a pass count exactly the samples and minibatches of
\* that pass.
C10_MetricsPerPass ==
  /\ pc \in {"train_init", "val_init"} => metrics = ZeroMetrics
  /\ pc \in {"train_step", "val_step"} /\ iter_pos = 0 => metrics = ZeroMetrics
  /\ pc \in LoopPcs =>
       resets = (IF pc \in {"train_reset", "val_reset"} THEN passes - 1 ELSE passes)
  /\ pc = "train_reset" =>
       /\ acc_val[2] = train_n
       /\ mean_loss_val[2] = NumBatches(train_n, batch_size)
  /\ pc = "val_reset" =>
       /\ acc_val[2] = val_n
       /\ mean_loss_val[2] = NumBatches(val_n, batch_size)
       /\ mean_loss_val[2] = vi

\* The first training pass of a later epoch of a resumed run starts, after
\* passes that did accumulate.
C10_Witness ==
  /\ pc = "train_step" /\ iter_pos = 0 /\ resume
  /\ passes >= 2 /\ train_n > 1 /\ val_n > 0 /\ batch_size = 1

\* The statements of a validation pass: lines 487-506.
ValStmts == {"val_init", "val_step", "val_log", "val_reset"}

\* C11: no statement of a validation pass changes a model weight or the state
\* of an optimizer or fetches a train op; every validation step that gets a
\* minibatch runs the metric update with the learning phase fed as 0; and the
\* samples it gets did not go through augment(), although those of the
\* training pass did.
C11_ValidationReadOnly ==
  [][ (pc \in ValStmts /\ pc' /= "off") =>
        /\ weights' = weights
        /\ fetches' \cap TrainOps = {}
        /\ (iter_pos' /= iter_pos /\ pc = "val_step") =>
             /\ "metric_update_ops" \in fetches'
             /\ fetches' \subseteq {"metric_update_ops", "loss", "mean_loss", "acc"}
             /\ learning_phase' = 0
             /\ ~batch_aug' ]_vars

\* A validation step of the fine-tune phase has run on a model that both
\* train ops have changed, with augmentation on.
C11_Witness ==
  /\ pc = "val_step" /\ vi > 0 /\ ~batch_aug /\ augmentation
  /\ "metric_update_ops" \in fetches
  /\ weights[Clf] > 0 /\ weights[Ft] > 0 /\ train_op = Ft

\* The layers whose optimizer-updated variables a step changes.
Changed == { l \in DOMAIN params : params'[l] /= params[l] }
\* A step that runs the train op `op`.
Runs(op) == Len(ran') > Len(ran) /\ ran'[Len(ran')] = op
BuiltClfOp == {"unfreeze", "finetune_op", "metrics", "writers", "session", "ready"}

\* C12: once the classifier train op is built its variable list holds the
\* variables of the new dense layer and of no layer of model_base, and every
\* run of it changes the dense layer's variables and no other layer's,
\* whatever finetune_layers is.
C12_ClassifierTrainsHeadOnly ==
  [][ /\ bpc' \in BuiltClfOp => var_list'[Clf] = {DenseHead}
      /\ Runs(Clf) => Changed = {DenseHead} ]_vars

\* The classifier op ran on a graph all of whose pretrained layers have
\* weights and were all set trainable again for fine-tuning.
C12_Witness ==
  /\ bpc = "ready" /\ ran = << Clf, Clf >>
  /\ Len(model_base) >= 2 /\ finetune_layers >= Len(model_base)
  /\ \A i \in DOMAIN model_base : HasParams(model_base[i]) /\ trainable[i]
  /\ params[DenseHead] = 2

C18_UnknownModelFailsFirst ==
  bpc = "raised" => made = {}

\* C14: the value an update returns is the sum of all the values observed
\* since the last reset (or since the metric was created) divided by their
\* number, over all the batches of that window together.
C14_MeanOverWindow ==
  streak.after = "update" /\ seen.count > 0 =>
    /\ out_up[2] > 0
    /\ out_up[1] * seen.count = seen.total * out_up[2]

\* Two batches of different sizes were observed since a reset: the mean of
\* the two batch means is 3/4, the value returned is 2/3.
C14_Witness ==
  /\ streak.after = "update" /\ resets_done > 0 /\ before_reset.count > 0
  /\ seen = [total |-> 2, count |-> 3] /\ out_up = << 2, 3 >>
  /\ calls = 4

\* C15: every read that follows an update returns what that update returned
\* and leaves total and count as the update left them.
C15_ReadIsPure ==
  streak.after = "update" /\ streak.reads > 0 =>
    mean_out = out_up /\ local_vars = at_update

\* Two reads in a row after an update of a metric that holds observations.
C15_Witness ==
  /\ streak.after = "update" /\ streak.reads >= 2
  /\ local_vars.total > 0 /\ local_vars.count > local_vars.total

\* C16: after a reset total and count are zero, and from then on updates and
\* reads return what they return for a metric created at the time of the
\* reset and given the same updates, whatever was observed before.
C16_ResetStartsAfresh ==
  resets_done > 0 =>
    /\ local_vars = fresh
    /\ streak.after = "reset" => local_vars = MeanCreated
    /\ streak.after = "update" => out_up = MeanValue(fresh)
    /\ streak.after /= "created" /\ streak.reads > 0 => mean_out = MeanValue(fresh)

\* A metric that held observations was reset, updated and read.
C16_Witness ==
  /\ resets_done > 0 /\ before_reset.total > 0 /\ before_reset.count > 1
  /\ streak.after = "update" /\ streak.reads > 0
  /\ fresh = [total |-> 1, count |-> 2]

\* C17: for a file name of at least two segments the outcome of get_label
\* depends on the segment before the last only: 1.0 is returned if it is
\* "mitosis", 0.0 if it is "normal", and for any other segment the call fails
\* and returns no label.
C17_LabelFromSegment ==
  lpc \in {"returned", "raised"} /\ Len(segments) >= 2 =>
    LET seg == segments[Len(segments) - 1] IN
    /\ seg = "mitosis" => lpc = "returned" /\ label = 1
    /\ seg = "normal" => lpc = "returned" /\ label = 0
    /\ seg \notin {"mitosis", "normal"} => lpc = "raised" /\ label = NoLabel

\* An absolute path with "normal" before the class segment "mitosis".
C17_Witness ==
  /\ lpc = "returned" /\ label = 1
  /\ segments = << "normal", "mitosis", "1_03_05.jpg" >>
  /\ filename[1] = "/"

\* C19: the weights file written by the checkpoint of an epoch carries in its
\* name the accuracy and the mean loss over all the samples and minibatches of
\* that epoch's validation pass, as they were before the metric reset, and
\* the epoch count, whether or not validation steps were logged.
C19_NamedWithValidationAggregates ==
  /\ pc \in CkptPcs =>
       /\ val_obs.samples = val_n
       /\ val_obs.batches = NumBatches(val_n, batch_size)
       /\ acc_val = << val_obs.correct, val_obs.samples >>
       /\ mean_loss_val = << val_obs.loss, val_obs.batches >>
       /\ metrics = ZeroMetrics
  /\ pc \in CkptPcs \ {"save_keras"} =>
       /\ disk_keras.st = "ok"
       /\ disk_keras.acc = Format5(SafeDiv(val_obs.correct, val_obs.samples))
       /\ disk_keras.loss = Format5(SafeDiv(val_obs.loss, val_obs.batches))
       /\ disk_keras.epoch = global_epoch

\* The file of the second epoch was written after a validation pass that
\* logged its step and after a training pass of two samples.
C19_Witness ==
  /\ pc = "save_ckpt" /\ log_interval > 0 /\ train_n = 2 /\ batch_size = 1
  /\ val_obs = [correct |-> 0, samples |-> 1, loss |-> 1, batches |-> 1]
  /\ disk_keras.acc = << 0, 1 >> /\ disk_keras.loss = << 10000, 4 >>
  /\ disk_keras.epoch = 2

\* C20: when precision + recall is 0 at the end of a pass, as it is for a
\* pass over no sample, the f1 of the epoch summary written for that pass is
\* not a number; the write is followed by the metric reset like any other,
\* and no pass makes the run fail.
C20_F1NotANumberIsLogged ==
  /\ pc \in {"train_reset", "val_reset"} =>
       /\ event.kind = "epoch"
       /\ event.writer = (IF pc = "train_reset" THEN "train" ELSE "val")
       /\ FAdd(Ppv(metrics), Sens(metrics))[1] = 0 => event.f1 = NaN
       /\ metrics.ppv_tp > 0 => event.f1 /= NaN
  /\ pc = "failed" => passes = 0

\* A run of two epochs came to its end although every training pass was over
\* no sample and the last validation pass had no true positive.
C20_Witness ==
  /\ pc = "done" /\ Total(epochs_run) = 2 /\ passes = 4
  /\ train_n = 0 /\ val_n = 1
  /\ event.kind = "epoch" /\ event.writer = "val" /\ event.f1 = NaN

\* C21: the trainable-layer switch applied twice (or more) with the same
\* finetune_layers >= 0 leaves the same set of trainable layers as applied
\* once, for a model_base of any number of layers, none included.
C21_SwitchIdempotent ==
  switch_runs >= 2 /\ finetune_layers >= 0 =>
    /\ TrainableLayers(trainable) = TrainableLayers(after_first)
    /\ TrainableLayers(trainable) =
         { i \in DOMAIN model_base : i > Len(model_base) - finetune_layers }

\* The switch ran twice on three layers with finetune_layers = 2.
C21_Witness ==
  /\ switch_runs = 2 /\ finetune_layers = 2 /\ Len(model_base) = 3
  /\ trainable = << FALSE, TRUE, TRUE >> /\ after_first = trainable

\* C22: when initialize_variables has returned, every global variable is
\* initialized and marked; the variables that were not marked before the call,
\* and only those, hold values drawn by the initializer run of the call, and
\* the variables that were marked (the pretrained ones among them) hold the
\* values they held before.
C22_InitializesUnmarkedOnly ==
  kpc \in {"checked", "resume"} =>
    /\ DOMAIN global_variables = DOMAIN before_init
    /\ locals_ready
    /\ \A v \in DOMAIN global_variables :
         /\ global_variables[v].marked
         /\ global_variables[v].value.from /= "none"
         /\ before_init[v].value.draw < draws
         /\ IF before_init[v].marked
              THEN global_variables[v].value = before_init[v].value
              ELSE global_variables[v].value = Drawn(draws)

\* The test's model: pretrained weights that were marked and a new Dense
\* layer that was neither marked nor initialized.
C22_Witness ==
  /\ caller = "test" /\ kpc = "checked"
  /\ before_init["model_base"] = CreatedPretrained
  /\ before_init["dense"] = Created
  /\ global_variables["model_base"].value = Pretrained
  /\ global_variables["dense"] = [marked |-> TRUE, value |-> Drawn(1)]

\* The graph is under construction after the freeze of lines 359-360, or the
\* loop is in the classifier phase: no fine-tune step has run yet.
BeforeFinetunePhase ==
  \/ bpc \in {"clf_op", "unfreeze", "finetune_op", "metrics", "writers", "session"}
  \/ bpc = "ready" /\ \A i \in DOMAIN ran : ran[i] = Clf

TrainsVariables == Len(kran') > Len(kran) /\ kran'[Len(kran')] \in TrainOps

\* C24: in a run of train() with --resume, when the restore is reached every
\* global variable of the graph exists, is initialized and is marked, and the
\* local variables are initialized; from the restore on no initializer runs
\* on any of them, model.save of a checkpoint included, and a variable's
\* value changes only in a step that runs a train op assigning to it, so
\* that it stays the restored value with train steps applied.
C24_RestoredValuesKept ==
  [][ (caller = "train" /\ kresume) =>
        /\ (kpc = "resume") =>
             /\ DOMAIN global_variables = GraphVariables(model_name)
             /\ locals_ready
             /\ \A v \in DOMAIN global_variables :
                  global_variables[v].marked /\ global_variables[v].value.from /= "none"
        /\ (kpc = "loop") =>
             /\ draws' = draws
             /\ \A v \in DOMAIN global_variables :
                  /\ global_variables'[v].value.from = "checkpoint"
                  /\ global_variables'[v].value.draw = 0
                  /\ global_variables'[v].value /= global_variables[v].value =>
                       /\ TrainsVariables
                       /\ v \in AssignedBy(kran'[Len(kran')], model_name)
    ]_vars

\* A resumed run has trained, saved a checkpoint and trained again.
C24_Witness ==
  /\ caller = "train" /\ kresume /\ kpc = "loop" /\ model_name = "vgg"
  /\ kran = << Clf, "save", Ft >>
  /\ global_variables["dense"].value = [from |-> "checkpoint", draw |-> 0, steps |-> 2]
  /\ global_variables["model_base"].value = [from |-> "checkpoint", draw |-> 0, steps |-> 1]
  /\ global_variables["clf_opt"].value = [from |-> "checkpoint", draw |-> 0, steps |-> 1]

\* C25: every run that enters the loops and is not stopped from outside
\* comes to the end of train(), whatever the sizes of the two sources (zero
\* included) and the epoch counts; by then every epoch of both phases has had
\* its training pass and its validation pass, each followed by its metric
\* reset, and its checkpoint writes if checkpointing is on.  Reaching the end
\* of a source makes no run fail.
C25_RunsToDone ==
  /\ (pc = "phase" /\ phase_idx = 0) ~>
       (/\ pc = "done"
        /\ Total(epochs_run) = clf_epochs + finetune_epochs
        /\ passes = 2 * (clf_epochs + finetune_epochs)
        /\ resets = passes
        /\ written_run = (IF checkpoint THEN 3 * (clf_epochs + finetune_epochs) ELSE 0))
  /\ [](pc = "failed" => passes = 0 /\ Total(steps_run) = 0)

\* A resumed run over two empty sources went through an epoch of each phase
\* with its checkpoints.
C25_Witness ==
  /\ pc = "done" /\ resume /\ train_n = 0 /\ val_n = 0
  /\ clf_epochs = 1 /\ finetune_epochs = 1 /\ checkpoint
  /\ passes = 4 /\ resets = 4 /\ written_run = 6 /\ global_epoch > 2

\* The statements from the end of the training loop to the end of the epoch.
AfterTrainPass == {"train_reset", "val_init", "val_step", "val_log", "val_reset",
                   "incr_epoch"}
\* The minibatches a pass has pulled when it has consumed pos samples, all of
\* batch_size samples except possibly the one that reached the end.
Pulled(pos, n, bs) ==
  IF pos <= n /\ (pos % bs = 0 \/ pos = n) THEN NumBatches(pos, bs) ELSE -1

\* C26: a pass starts at the beginning of the source it is bound to and ends
\* when it has consumed all of its samples, each counted once; its
\* minibatches have batch_size samples, except that the last one may have
\* fewer; and each training pass over train_n samples, in every epoch of both
\* phases, raises global_step by NumBatches(train_n, batch_size), the ceiling
\* of train_n / batch_size.
C26_PassConsumesSourceOnce ==
  LET per_pass == NumBatches(train_n, batch_size)
      before == start.step + Total(epochs_run) * per_pass
  IN
  /\ pc = "train_init" => global_step = before
  /\ pc \in {"train_step", "train_log"} =>
       /\ iter_src = "train"
       /\ Pulled(iter_pos, train_n, batch_size) >= 0
       /\ global_step = before + Pulled(iter_pos, train_n, batch_size)
       /\ metrics.acc_count = iter_pos
       /\ metrics.loss_count = Pulled(iter_pos, train_n, batch_size)
  /\ pc = "train_log" => iter_pos = train_n
  /\ pc \in AfterTrainPass => global_step = before + per_pass
  /\ pc \in {"val_step", "val_log"} =>
       /\ iter_src = "val"
       /\ vi = Pulled(iter_pos, val_n, batch_size)
       /\ metrics.acc_count = iter_pos
       /\ metrics.loss_count = vi
  /\ pc = "val_log" => iter_pos = val_n

\* The training pass of a fine-tune epoch of a resumed run has ended after
\* two minibatches, and an earlier validation pass had a short minibatch.
C26_Witness ==
  /\ pc = "train_log" /\ train_op = Ft /\ resume /\ start.step > 0
  /\ train_n = 2 /\ batch_size = 1 /\ iter_pos = 2
  /\ global_step = start.step + 2 * Total(epochs_run) + 2
  /\ Total(epochs_run) > 0

\* A pass whose only minibatch is shorter than batch_size.
C26_ShortBatch ==
  /\ pc = "train_log" /\ train_n = 1 /\ batch_size = 2 /\ iter_pos = 1

\* The ops of a sess.run that assign to a variable or move the iterator.
Effectful == TrainOps \cup {"metric_update_ops", "metric_reset_ops", "train_init_op",
                            "val_init_op"}
\* What of a run is training: where it is, its counters, the model and the
\* optimizers, the metrics, the iterator, the ops of its last sess.run that
\* change state, and the checkpoint files with their names.
Training(s) ==
  [pc |-> s.pc, phase_idx |-> s.phase_idx, train_op |-> s.train_op, loop_i |-> s.loop_i,
   hi |-> s.hi, global_step |-> s.global_step, global_epoch |-> s.global_epoch,
   weights |-> s.weights, metrics |-> s.metrics,
   iter_src |-> s.iter_src, iter_pos |-> s.iter_pos,
   ops |-> s.fetches \cap Effectful,
   keras |-> s.keras, ckpt |-> s.ckpt, pickle |-> s.pickle]

\* C27: two runs on the same data and with the same arguments other than
\* log_interval (zero and negative values included) are, statement by
\* statement, at the same place with the same counters, the same model,
\* optimizer and metric state, the same state-changing ops just run, and the
\* same checkpoint files under the same names.
C27_LoggingDoesNotInfluenceTraining ==
  twin /= << >> => Training(twin[1]) = Training(twin[2])

\* Two runs have ended after an epoch of each phase with checkpoints; one of
\* them never logged, the other logged every step, and what they logged and
\* fetched last in a loop turn differs.
C27_Witness ==
  /\ twin /= << >> /\ twin[1].pc = "done" /\ twin[2].pc = "done"
  /\ intervals[1] <= 0 /\ intervals[2] = 1
  /\ twin[1].loss_val = -1 /\ twin[2].loss_val = 1
  /\ twin[1].global_step > twin_args.start.step + 1
  /\ twin[1].global_epoch = twin_args.start.epoch + 2
  /\ twin[1].keras.st = "ok" /\ twin[1].pickle.st = "ok"
  /\ twin[1].weights[Clf] > 0 /\ twin[1].weights[Ft] > 0

====
